---- MODULE Spec2Model ----
(***************************************************************************)
(* Verification model of md2pdf.mjs (current variant, lines 1-964):        *)
(*   - parseYamlFrontMatter  (front matter splitter)         SpecFM        *)
(*   - the raster branch of processImages (base64 data URL)  SpecB64       *)
(*   - the inline-svg branch of the substitution pass        SpecSvg       *)
(*   - processImages as called by main                       Spec          *)
(* Texts are sequences of one-character strings.                           *)
(***************************************************************************)
EXTENDS Integers, Sequences, FiniteSets, TLC

\* ------------------------------------------------------------------------
\* Bounds
\* ------------------------------------------------------------------------
\* number of pieces the metadata section M of an input text is built from
MaxMPieces == 3
\* number of pieces the body B of an input text is built from
MaxBPieces == 3
\* number of bytes of a raster file
MaxBytes == 4
\* number of attributes on each side of the src attribute of an img element
MaxSideAttrs == 1
\* number of attributes of the root element of an svg file
MaxRootAttrs == 2
\* number of img elements of a fragment
MaxImgs == 2
\* readings of Date.now() during one run of processImages: 0..MaxClock
MaxClock == 1
\* number of tokens of the fragment handed to insertAfterFirstH1
MaxFragLen == 3
\* number of tokens of the body handed to buildHtml
MaxBodyLen == 2
\* number of pieces of the info string and of the content of a fenced block
MaxInfoLen == 3
MaxContentLen == 2

VARIABLES
  fmPc,          \* position of parseYamlFrontMatter: "off" | "call" | "done"
  fmContent,     \* argument `content`
  fmM,           \* the M the input text was built from
  fmB,           \* the B the input text was built from
  fmBlock,       \* TRUE: content = "---\n" + M + "\n---\n" + B, FALSE: content = M + B
  fmFrontMatter, \* returned frontMatter
  fmBody,        \* returned body
  fmWarned       \* console.warn was called

fmVars == <<fmPc, fmContent, fmM, fmB, fmBlock, fmFrontMatter, fmBody, fmWarned>>

VARIABLES
  b64Pc,         \* position of the raster task: "off" | "call" | "done"
  b64Ext,        \* extension of the file name, as written
  b64Bytes,      \* bytes of the file
  b64Info        \* the value stored in imageMap

b64Vars == <<b64Pc, b64Ext, b64Bytes, b64Info>>

VARIABLES
  svgPc,         \* position of the inline-svg substitution: "off" | "call" | "done"
  svgBefore,     \* attributes of the img element before src
  svgAfter,      \* attributes of the img element after src
  svgFile,       \* the svg text read from the file
  svgOut         \* the svg text spliced into the fragment

svgVars == <<svgPc, svgBefore, svgAfter, svgFile, svgOut>>

VARIABLES
  html,          \* the img elements of the fragment, in document order (imageMatches)
  embedBase64,   \* argument embedBase64
  pc,            \* position of processImages
  keys,          \* the keys of imageMap in insertion order
  imageMap,      \* src -> null | { type, content }
  idx,           \* position of `for (const src of imageMap.keys())`
  tasks,         \* the promises pushed to `tasks`, with the step each is at
  tempFiles,     \* const tempFiles = []
  tempDir,       \* the directory .md2pdf_temp exists
  tmpFs,         \* the files in .md2pdf_temp
  result,        \* let result = html, by position of the original element
  subst,         \* position of the substitution loop
  unlinked,      \* position of the loop over tempFiles
  log,           \* what was logged
  mainPc,        \* position of main around its call of processImages
  exitCode       \* process.exitCode

piVars == <<html, embedBase64, pc, keys, imageMap, idx, tasks, tempFiles, tempDir,
            tmpFs, result, subst, unlinked, log, mainPc, exitCode>>


\* ------------------------------------------------------------------------
\* Generic helpers on texts
\* ------------------------------------------------------------------------
RECURSIVE Flatten(_)
Flatten(ss) == IF ss = <<>> THEN <<>> ELSE Head(ss) \o Flatten(Tail(ss))

SeqsUpTo(S, n) == UNION {[1..k -> S] : k \in 0..n}

NL == "\n"
SP == " "
Dashes == <<"-", "-", "-">>

\* s occurs in t at position i
HasAt(t, i, s) == /\ i >= 1
                  /\ i + Len(s) - 1 <= Len(t)
                  /\ SubSeq(t, i, i + Len(s) - 1) = s

\* the class \s of the regular expressions, on the alphabet of the model
IsWs(c) == c \in {SP, NL}
AllWs(t, i, j) == \A x \in i..j : IsWs(t[x])

Max(S) == CHOOSE x \in S : \A y \in S : y <= x
Min(S) == CHOOSE x \in S : \A y \in S : x <= y

RECURSIVE SplitLines(_)
SplitLines(t) ==
  IF \E i \in 1..Len(t) : t[i] = NL
  THEN LET i == Min({j \in 1..Len(t) : t[j] = NL})
       IN  <<SubSeq(t, 1, i - 1)>> \o SplitLines(SubSeq(t, i + 1, Len(t)))
  ELSE <<t>>

\* ------------------------------------------------------------------------
\* parseYamlFrontMatter
\* ------------------------------------------------------------------------
\* yamlRegex = /^---\s*\n([\s\S]*?)\n---\s*\n([\s\S]*)$/
\* positions p of the "\n" that can end the opening ^---\s*\n
OpenEnds(t) ==
  IF HasAt(t, 1, Dashes)
  THEN {p \in 4..Len(t) : t[p] = NL /\ AllWs(t, 4, p - 1)}
  ELSE {}

\* positions r of the "\n" that can end a closing \n---\s*\n that starts at q
CloseEnds(t, q) ==
  IF q >= 1 /\ q <= Len(t) /\ t[q] = NL /\ HasAt(t, q + 1, Dashes)
  THEN {r \in (q + 4)..Len(t) : t[r] = NL /\ AllWs(t, q + 4, r - 1)}
  ELSE {}

\* positions q (after an opening that ends at p) where a closing can start
CloseStarts(t, p) == {q \in (p + 1)..Len(t) : CloseEnds(t, q) # {}}

\* content.match(yamlRegex): the first \s* is greedy (largest p that lets
\* the whole expression match), group 1 is lazy (smallest q), the second
\* \s* is greedy (largest r), group 2 is the rest.
yamlRegexMatch(t) ==
  LET ps == {p \in OpenEnds(t) : CloseStarts(t, p) # {}}
  IN  IF ps = {}
      THEN [matched |-> FALSE, g1 |-> <<>>, g2 |-> <<>>]
      ELSE LET p == Max(ps)
               q == Min(CloseStarts(t, p))
               r == Max(CloseEnds(t, q))
           IN  [matched |-> TRUE,
                g1 |-> SubSeq(t, p + 1, q - 1),
                g2 |-> SubSeq(t, r + 1, Len(t))]

\* Values yaml.load can produce on the texts of the model.
EmptyMap == [kind |-> "map", keys |-> {}]
YUndefined == [kind |-> "undefined", keys |-> {}]
YThrow == [kind |-> "throw", keys |-> {}]
YScalar == [kind |-> "scalar", keys |-> {}]
YMap(ks) == [kind |-> "map", keys |-> ks]

\* One line of YAML text.  "k" stands for the text of one `key: value` pair
\* with key k, "w" for a plain word, "[" for an unterminated flow sequence.
StripSp(l) == SelectSeq(l, LAMBDA c : c # SP)
LeadSp(l) == l # <<>> /\ Head(l) = SP
LineKind(l) ==
  LET s == StripSp(l)
  IN  IF s = <<>> THEN "blank"
      ELSE IF s = Dashes /\ ~LeadSp(l) THEN "marker"
      ELSE IF s = Dashes THEN "word"
      ELSE IF s = <<"k">> THEN "pair"
      ELSE IF s = <<"w">> THEN "word"
      ELSE "bad"

\* yaml.load(text): one document only, a mapping of pairs without duplicate
\* keys, or a (possibly multi-line) plain scalar, or nothing.
yamlLoad(text) ==
  LET ls == SplitLines(text)
      kinds == [i \in 1..Len(ls) |-> LineKind(ls[i])]
      ix == 1..Len(ls)
      markers == {i \in ix : kinds[i] = "marker"}
      pairs == {i \in ix : kinds[i] = "pair"}
      words == {i \in ix : kinds[i] = "word"}
      multiDoc == \/ Cardinality(markers) >= 2
                  \/ \E m \in markers : \E i \in ix : i < m /\ kinds[i] \notin {"blank"}
  IN  IF \E i \in ix : kinds[i] = "bad" THEN YThrow
      ELSE IF multiDoc THEN YThrow
      ELSE IF pairs # {} /\ words # {} THEN YThrow
      ELSE IF Cardinality(pairs) >= 2 THEN YThrow
      ELSE IF pairs # {} THEN YMap({"k"})
      ELSE IF words # {} THEN YScalar
      ELSE YUndefined

\* parseYamlFrontMatter whose catch branch keeps the split it had matched
parseYamlFrontMatter_KeepSplit(content) ==
  LET match == yamlRegexMatch(content)
  IN  IF ~match.matched
      THEN [frontMatter |-> EmptyMap, body |-> content, warned |-> FALSE]
      ELSE LET y == yamlLoad(match.g1)
           IN  [frontMatter |-> IF y.kind \in {"undefined", "throw"} THEN EmptyMap ELSE y,
                body |-> match.g2,
                warned |-> y.kind = "throw"]

\* function parseYamlFrontMatter(content)
parseYamlFrontMatter(content) ==
  LET match == yamlRegexMatch(content)
  IN  IF ~match.matched
      THEN [frontMatter |-> EmptyMap, body |-> content, warned |-> FALSE]
      ELSE LET y == yamlLoad(match.g1)
           IN  IF y.kind = "throw"
               THEN [frontMatter |-> EmptyMap, body |-> content, warned |-> TRUE]
               ELSE [frontMatter |-> IF y.kind = "undefined" THEN EmptyMap ELSE y,
                     body |-> match.g2,
                     warned |-> FALSE]

\* ------------------------------------------------------------------------
\* processImages: raster files as base64 data URLs
\* ------------------------------------------------------------------------
\* String.prototype.toLowerCase on the words of the model
toLowerCase(s) ==
  CASE s = "PNG" -> "png"
    [] s = "JPG" -> "jpg"
    [] s = "Jpeg" -> "jpeg"
    [] s = "SVG" -> "svg"
    [] s = "PDF" -> "pdf"
    [] s = "MERMAID" -> "mermaid"
    [] s = "Mermaid" -> "mermaid"
    [] OTHER -> s

\* const supportedExts = new Set(["png", "jpg", "jpeg", "gif", "svg", "webp"])
supportedExts == {"png", "jpg", "jpeg", "gif", "svg", "webp"}

\* the base64 alphabet of Buffer.prototype.toString("base64")
Base64Alphabet ==
  <<"A", "B", "C", "D", "E", "F", "G", "H", "I", "J", "K", "L", "M",
    "N", "O", "P", "Q", "R", "S", "T", "U", "V", "W", "X", "Y", "Z",
    "a", "b", "c", "d", "e", "f", "g", "h", "i", "j", "k", "l", "m",
    "n", "o", "p", "q", "r", "s", "t", "u", "v", "w", "x", "y", "z",
    "0", "1", "2", "3", "4", "5", "6", "7", "8", "9", "+", "/">>

B64Char(n) == Base64Alphabet[n + 1]

\* buffer.toString("base64"): three bytes give four characters, a rest of
\* one or two bytes is padded with "="
RECURSIVE toBase64(_)
toBase64(bytes) ==
  IF Len(bytes) = 0 THEN <<>>
  ELSE IF Len(bytes) = 1
  THEN <<B64Char(bytes[1] \div 4), B64Char((bytes[1] % 4) * 16), "=", "=">>
  ELSE IF Len(bytes) = 2
  THEN <<B64Char(bytes[1] \div 4),
         B64Char((bytes[1] % 4) * 16 + bytes[2] \div 16),
         B64Char((bytes[2] % 16) * 4),
         "=">>
  ELSE <<B64Char(bytes[1] \div 4),
         B64Char((bytes[1] % 4) * 16 + bytes[2] \div 16),
         B64Char((bytes[2] % 16) * 4 + bytes[3] \div 64),
         B64Char(bytes[3] % 64)>>
       \o toBase64(SubSeq(bytes, 4, Len(bytes)))

\* the value of a resolved reference: a data URL or a file URL
DataUrl(mime, payload) ==
  [scheme |-> "data", mime |-> mime, enc |-> "base64", payload |-> payload, path |-> ""]
FileUrl(absPath) ==
  [scheme |-> "file", mime |-> "", enc |-> "", payload |-> <<>>, path |-> absPath]
NoUrl == [scheme |-> "", mime |-> "", enc |-> "", payload |-> <<>>, path |-> ""]

\* the text of an svg file: attributes of the root element, whether a
\* <title> tag occurs in it, the title element spliced in front of its
\* children, and img elements written in its text
SvgText(root, hasTitle, inner) ==
  [root |-> root, hasTitle |-> hasTitle, title |-> <<>>, inner |-> inner]
NoSvg == SvgText(<<>>, FALSE, <<>>)

\* entries of imageMap: { type, content, attributes }, or null
ImageInfo(type, url, svg) == [type |-> type, url |-> url, svg |-> svg]
Null == ImageInfo("null", NoUrl, NoSvg)

\* mime type of a raster task that maps jpg to image/jpg
rasterMimeType_NoJpegAlias(ext) == "image/" \o ext

\* const mimeType = `image/${ext === "jpg" ? "jpeg" : ext}`
rasterMimeType(ext) == "image/" \o (IF ext = "jpg" THEN "jpeg" ELSE ext)

\* the raster task: fsp.readFile(absPath).then((buffer) => imageMap.set(...))
rasterInfo(ext, buffer) ==
  ImageInfo("base64", DataUrl(rasterMimeType(ext), toBase64(buffer)), NoSvg)

\* the large-svg task: data:image/svg+xml;base64,...
svgBase64Info(buffer) ==
  ImageInfo("base64", DataUrl("image/svg+xml", toBase64(buffer)), NoSvg)

\* path.extname(absPath).slice(1).toLowerCase()
extOf(rawExt) == toLowerCase(rawExt)

\* Decoding of a base64 text (the inverse a browser applies to a data URL)
B64Index(c) == (CHOOSE i \in 1..64 : Base64Alphabet[i] = c) - 1
RECURSIVE fromBase64(_)
fromBase64(cs) ==
  IF Len(cs) < 4 THEN <<>>
  ELSE LET a == B64Index(cs[1])
           b == B64Index(cs[2])
           rest == fromBase64(SubSeq(cs, 5, Len(cs)))
       IN  IF cs[3] = "="
           THEN <<a * 4 + b \div 16>> \o rest
           ELSE IF cs[4] = "="
           THEN <<a * 4 + b \div 16,
                  (b % 16) * 16 + B64Index(cs[3]) \div 4>> \o rest
           ELSE <<a * 4 + b \div 16,
                  (b % 16) * 16 + B64Index(cs[3]) \div 4,
                  (B64Index(cs[3]) % 4) * 64 + B64Index(cs[4])>> \o rest

\* ------------------------------------------------------------------------
\* processImages: splicing an svg in place of the img element
\* ------------------------------------------------------------------------
\* An attribute as written in markup: its name is a sequence of words joined
\* by "-" (stroke-width is <<"stroke", "width">>), its value is the text
\* between the quotes.
Attr(name, value) == [name |-> name, value |-> value]
Last(s) == s[Len(s)]

\* String.prototype.toLowerCase on the attribute words of the model
lowerWord(w) == IF w = "Width" THEN "width" ELSE w

\* attrMap.set(key, value): a Map keeps the position of the first insertion
MapSet(m, key, value) ==
  IF \E i \in 1..Len(m) : m[i].key = key
  THEN [i \in 1..Len(m) |-> IF m[i].key = key THEN [key |-> key, value |-> value] ELSE m[i]]
  ELSE Append(m, [key |-> key, value |-> value])
MapHas(m, key) == \E i \in 1..Len(m) : m[i].key = key
MapGet(m, key) == m[CHOOSE i \in 1..Len(m) : m[i].key = key].value

\* attrRegex = /(\w+)=["']([^"']+)["']/g over `${beforeSrc}${afterSrc}`:
\* (\w+) is the last word of the name, the value must not be empty
RECURSIVE parseAttributes(_, _)
parseAttributes(attrs, m) ==
  IF attrs = <<>> THEN m
  ELSE LET a == Head(attrs)
       IN  parseAttributes(Tail(attrs),
             IF a.value # "" THEN MapSet(m, lowerWord(Last(a.name)), a.value) ELSE m)

\* /width\s*=/i.test(attrs), /height\s*=/i.test(attrs) on the attribute text
\* of the root element: the word right before some "="
rootMentions(root, word) ==
  \E i \in 1..Len(root) : lowerWord(Last(root[i].name)) = word

\* svgContent.replace(/<svg([^>]*?)>/i, ...) for width and for height
applySize(svg, attrMap, word) ==
  IF MapHas(attrMap, word) /\ ~rootMentions(svg.root, word)
  THEN [svg EXCEPT !.root = Append(@, Attr(<<word>>, MapGet(attrMap, word)))]
  ELSE svg

\* if (attrMap.has("alt")) { if (!/<title>/i.test(svgContent)) ... }
applyAlt(svg, attrMap) ==
  IF MapHas(attrMap, "alt") /\ ~svg.hasTitle
  THEN [svg EXCEPT !.title = <<MapGet(attrMap, "alt")>>, !.hasTitle = TRUE]
  ELSE svg

\* otherAttrs: every key except width, height, alt, src, in Map order
RECURSIVE otherAttrs(_)
otherAttrs(m) ==
  IF m = <<>> THEN <<>>
  ELSE (IF Head(m).key \notin {"width", "height", "alt", "src"}
        THEN <<Attr(<<Head(m).key>>, Head(m).value)>>
        ELSE <<>>) \o otherAttrs(Tail(m))

applyOther(svg, attrMap) == [svg EXCEPT !.root = @ \o otherAttrs(attrMap)]

\* the branch imageInfo.type === "svg" of the substitution pass
spliceSvg(beforeSrc, afterSrc, content) ==
  LET attrMap == parseAttributes(beforeSrc \o afterSrc, <<>>)
      s1 == applySize(content, attrMap, "width")
      s2 == applySize(s1, attrMap, "height")
      s3 == applyAlt(s2, attrMap)
  IN  applyOther(s3, attrMap)

\* ------------------------------------------------------------------------
\* processImages: the fragment, the files, the lookup
\* ------------------------------------------------------------------------
\* svgSizeMB > 1.0 with svgSizeMB = size / 1024 / 1024
SvgInlineLimit == 1048576

\* the src attribute of an img element as written
RawSrc(s) == [scheme |-> "raw", mime |-> "", enc |-> "", payload |-> <<>>, path |-> s]

\* One match of imgRegex = /<img\s+([^>]*?)src=["']([^"']+)["']([^>]*?)>/g:
\* `sep` is the text matched by \s+ (it belongs to no group), `before` and
\* `after` are the attributes in groups 1 and 3, `src` is group 2.
ImgElem(before, src, after) ==
  [kind |-> "img", sep |-> " ", before |-> before, src |-> RawSrc(src), after |-> after]

\* `<img${beforeSrc}src="${imageInfo.content}"${afterSrc}>`
rewrittenImg(e, url) ==
  [kind |-> "img", sep |-> "", before |-> e.before, src |-> url, after |-> e.after]

\* the opening tag (and title) of a spliced svg
SvgElem(svg) == [kind |-> "svg", svg |-> [svg EXCEPT !.inner = <<>>]]

\* The files under baseDir, by src.  `scheme` is the text of src before
\* "://" (empty when src has none), `size` is what stat reports, `bytes` and
\* `svg` stand for the content (v.svg holds the text of an img element, as
\* in a foreignObject); for a pdf they are those of the svg that
\* pdftocairo writes, `base` is path.basename(pdfPath, ".pdf"), and conv* say
\* how pdftocairo and the calls on its output end:
\*   "ok"        exit code 0, svgPath written
\*   "nooutput"  exit code 0, nothing written
\*   "fail"      exit code not 0, nothing written
\*   "failWrote" exit code not 0 after svgPath was written
\*   "enoent"    the command could not be started
File(scheme, exists, isFile, rawExt, size, bytes, svg, readOk) ==
  [scheme |-> scheme, exists |-> exists, isFile |-> isFile, rawExt |-> rawExt,
   size |-> size, bytes |-> bytes, svg |-> svg, readOk |-> readOk,
   base |-> "", conv |-> "none", convStatOk |-> TRUE, convReadOk |-> TRUE]
PdfFile(base, conv, size, bytes, svg, statOk, readOk) ==
  [scheme |-> "", exists |-> TRUE, isFile |-> TRUE, rawExt |-> "pdf",
   size |-> size, bytes |-> bytes, svg |-> svg, readOk |-> TRUE,
   base |-> base, conv |-> conv, convStatOk |-> statOk, convReadOk |-> readOk]

PlainRoot == <<Attr(<<"viewBox">>, "0 0 1 1")>>
StrokeRoot == <<Attr(<<"stroke", "width">>, "2")>>
OtherRoot == <<Attr(<<"viewBox">>, "0 0 2 2")>>

Files ==
  ("http://h/a.png" :> File("http", FALSE, FALSE, "png", 0, <<>>, NoSvg, FALSE))
  @@ ("HTTPS://h/b.png" :> File("HTTPS", FALSE, FALSE, "png", 0, <<>>, NoSvg, FALSE))
  @@ ("ftp://h/c.png" :> File("ftp", FALSE, FALSE, "png", 0, <<>>, NoSvg, FALSE))
  @@ ("missing.png" :> File("", FALSE, FALSE, "png", 0, <<>>, NoSvg, FALSE))
  @@ ("dir.png" :> File("", TRUE, FALSE, "png", 0, <<>>, NoSvg, FALSE))
  @@ ("a.png" :> File("", TRUE, TRUE, "png", 3, <<137, 80, 78>>, NoSvg, TRUE))
  @@ ("b.JPG" :> File("", TRUE, TRUE, "JPG", 2, <<255, 216>>, NoSvg, TRUE))
  @@ ("noread.gif" :> File("", TRUE, TRUE, "gif", 1, <<71>>, NoSvg, FALSE))
  @@ ("n.txt" :> File("", TRUE, TRUE, "txt", 1, <<110>>, NoSvg, TRUE))
  @@ ("s.svg" :> File("", TRUE, TRUE, "svg", SvgInlineLimit - 1, <<60, 115>>,
                      SvgText(PlainRoot, FALSE, <<>>), TRUE))
  @@ ("t.svg" :> File("", TRUE, TRUE, "SVG", SvgInlineLimit, <<60, 116>>,
                      SvgText(StrokeRoot, TRUE, <<>>), TRUE))
  @@ ("u.svg" :> File("", TRUE, TRUE, "svg", SvgInlineLimit + 1, <<60, 117>>,
                      SvgText(PlainRoot, FALSE, <<>>), TRUE))
  @@ ("v.svg" :> File("", TRUE, TRUE, "svg", 9, <<60, 118>>,
                      SvgText(PlainRoot, FALSE,
                              <<ImgElem(<<>>, "a.png", <<Attr(<<"alt">>, "fig")>>)>>), TRUE))
  @@ ("p.pdf" :> PdfFile("p", "ok", SvgInlineLimit - 1, <<60, 112>>,
                         SvgText(PlainRoot, FALSE, <<>>), TRUE, TRUE))
  @@ ("q.pdf" :> PdfFile("q", "ok", SvgInlineLimit, <<60, 113>>,
                         SvgText(PlainRoot, FALSE, <<>>), TRUE, TRUE))
  @@ ("r.PDF" :> [PdfFile("r.PDF", "ok", SvgInlineLimit + 1, <<60, 114>>,
                          SvgText(PlainRoot, FALSE, <<>>), TRUE, TRUE)
                  EXCEPT !.rawExt = "PDF"])
  @@ ("bad.pdf" :> PdfFile("bad", "fail", 0, <<>>, NoSvg, TRUE, TRUE))
  @@ ("wrote.pdf" :> PdfFile("wrote", "failWrote", 1, <<60>>, NoSvg, TRUE, TRUE))
  @@ ("empty.pdf" :> PdfFile("empty", "nooutput", 0, <<>>, NoSvg, TRUE, TRUE))
  @@ ("nocmd.pdf" :> PdfFile("nocmd", "enoent", 0, <<>>, NoSvg, TRUE, TRUE))
  @@ ("d1/x.pdf" :> PdfFile("x", "ok", 6, <<60, 49>>,
                            SvgText(PlainRoot, FALSE, <<>>), TRUE, TRUE))
  @@ ("d2/x.pdf" :> PdfFile("x", "ok", 7, <<60, 50>>,
                            SvgText(OtherRoot, FALSE, <<>>), TRUE, TRUE))
  @@ ("gone.pdf" :> PdfFile("gone", "ok", 5, <<60, 103>>,
                            SvgText(PlainRoot, FALSE, <<>>), FALSE, TRUE))

Srcs == DOMAIN Files

\* /^https?:\/\//i.test(src)
lowerScheme(w) == IF w = "HTTPS" THEN "https" ELSE IF w = "HTTP" THEN "http" ELSE w
isRemote(src) == lowerScheme(Files[src].scheme) \in {"http", "https"}

\* path.isAbsolute(src) ? src : path.resolve(baseDir, src)
absPathOf(src) == "/doc/" \o src

\* path.join(outputDir, `${path.basename(pdfPath, ".pdf")}_${Date.now()}.svg`)
svgPathOf(src, now) ==
  "/doc/.md2pdf_temp/" \o Files[src].base \o "_" \o ToString(now) \o ".svg"

\* the temporary directory: a set of [path, owner], owner being the pdf whose
\* conversion wrote the file last
writeFile(fs, path, owner) ==
  {f \in fs : f.path # path} \cup {[path |-> path, owner |-> owner]}
fileExists(fs, path) == \E f \in fs : f.path = path
ownerOf(fs, path) == (CHOOSE f \in fs : f.path = path).owner

\* the img elements a fragment is made of
AltAttr == Attr(<<"alt">>, "fig")
WidthAttr == Attr(<<"width">>, "10")
Elems ==
  {ImgElem(<<>>, s, <<AltAttr>>) : s \in Srcs}
    \cup {ImgElem(<<WidthAttr>>, "a.png", <<>>), ImgElem(<<WidthAttr>>, "s.svg", <<AltAttr>>)}

\* a loop over the matches instead of the keys of the Map
scanKeys_AllMatches(matches, ks) == [i \in 1..Len(matches) |-> matches[i].src.path]

\* the keys of imageMap in insertion order: the distinct src of the matches
RECURSIVE scanKeys(_, _)
scanKeys(matches, ks) ==
  IF matches = <<>> THEN ks
  ELSE LET s == Head(matches).src.path
       IN  scanKeys(Tail(matches),
                    IF \E i \in 1..Len(ks) : ks[i] = s THEN ks ELSE Append(ks, s))

\* result.replace(fullMatch, replacement): the first occurrence of the text
\* of the element in the fragment, in document order.  res[i] is the text
\* that now stands where the i-th img element of the fragment stood.
occurrences(res, e) ==
  UNION {{<<i, k>> : k \in {n \in 1..Len(res[i]) : res[i][n] = e}} :
           i \in 1..Len(res)}
firstOccurrence(res, e) ==
  CHOOSE p \in occurrences(res, e) :
    \A o \in occurrences(res, e) : p[1] < o[1] \/ (p[1] = o[1] /\ p[2] <= o[2])
replaceFirst(res, e, replacement) ==
  IF occurrences(res, e) = {} THEN res
  ELSE LET p == firstOccurrence(res, e)
           t == res[p[1]]
       IN  [res EXCEPT ![p[1]] =
              SubSeq(t, 1, p[2] - 1) \o replacement \o SubSeq(t, p[2] + 1, Len(t))]

\* the key a task writes: a task that writes the last key of the loop
taskKey_LastKey(ks, src) == ks[Len(ks)]

\* the key a task writes: the src of its own iteration (const src)
taskKey(ks, src) == src

\* the body of the substitution loop for one match
substituteOne(res, e, imageInfo) ==
  IF imageInfo.type \in {"null", "deleted"} THEN res
  ELSE IF imageInfo.type = "svg"
  THEN LET spliced == spliceSvg(e.before, e.after, imageInfo.svg)
       IN  replaceFirst(res, e, <<SvgElem(spliced)>> \o spliced.inner)
  ELSE replaceFirst(res, e, <<rewrittenImg(e, imageInfo.url)>>)

\* ------------------------------------------------------------------------
\* generateMetaInfo and insertAfterFirstH1
\* ------------------------------------------------------------------------
\* A front matter value: undefined, or a text.  A text is a sequence of
\* pieces: letters, or one of the two-character patterns "$1", "$&", "$$".
Undefined == [def |-> FALSE, text |-> <<>>]
Text(t) == [def |-> TRUE, text |-> t]

\* truthiness of a value: undefined and "" are falsy
Truthy(v) == v.def /\ v.text # <<>>

\* one line of the template literal of lines 203-208
MetaField(class, label, v) ==
  IF Truthy(v)
  THEN <<"<div class=" \o class \o ">">> \o label \o v.text \o <<"</div>">>
  ELSE <<>>

\* function generateMetaInfo(frontMatter)
generateMetaInfo(frontMatter) ==
  IF ~Truthy(frontMatter.author) /\ ~Truthy(frontMatter.affiliation)
       /\ ~Truthy(frontMatter.student_id)
  THEN <<>>
  ELSE <<"<div class=document-meta>">>
         \o MetaField("meta-student-id", <<"ID: ">>, frontMatter.student_id)
         \o MetaField("meta-author", <<>>, frontMatter.author)
         \o MetaField("meta-affiliation", <<>>, frontMatter.affiliation)
         \o <<"</div>">>

\* h1Regex = /(<h1[^>]*>.*?<\/h1>)/s on a fragment of tokens: the match
\* starts at the first <h1 ...> tag that has a </h1> after it and ends at the
\* first </h1> after that start
h1Starts(frag) ==
  {i \in 1..Len(frag) : frag[i] = "<h1>" /\ \E j \in i + 1..Len(frag) : frag[j] = "</h1>"}
h1Match(frag) ==
  IF h1Starts(frag) = {} THEN [found |-> FALSE, from |-> 0, to |-> 0]
  ELSE LET i == Min(h1Starts(frag))
           j == Min({k \in i + 1..Len(frag) : frag[k] = "</h1>"})
       IN  [found |-> TRUE, from |-> i, to |-> j]

\* the replacement text of String.prototype.replace: "$$" stands for "$",
\* "$&" for the match, "$1" for the first group when the pattern has one
RECURSIVE expandReplacement(_, _, _)
expandReplacement(repl, matched, groups) ==
  IF repl = <<>> THEN <<>>
  ELSE (CASE Head(repl) = "$1" /\ Len(groups) >= 1 -> groups[1]
          [] Head(repl) = "$&" -> matched
          [] Head(repl) = "$$" -> <<"$">>
          [] OTHER -> <<Head(repl)>>)
       \o expandReplacement(Tail(repl), matched, groups)

\* function insertAfterFirstH1(html, metaHtml):
\* html.replace(h1Regex, `$1${metaHtml}`)
insertAfterFirstH1(frag, metaHtml) ==
  IF metaHtml = <<>> THEN frag
  ELSE LET m == h1Match(frag)
           matched == SubSeq(frag, m.from, m.to)
       IN  IF ~m.found THEN frag
           ELSE SubSeq(frag, 1, m.from - 1)
                  \o expandReplacement(<<"$1">> \o metaHtml, matched, <<matched>>)
                  \o SubSeq(frag, m.to + 1, Len(frag))

\* ------------------------------------------------------------------------
\* buildConfig, buildHeadingNumberCSS, buildHtml
\* ------------------------------------------------------------------------
\* a value of the front matter or of the environment
Absent == [type |-> "undefined", val |-> ""]
YNull == [type |-> "null", val |-> ""]
Bool(b) == [type |-> "boolean", val |-> IF b THEN "true" ELSE "false"]
Str(s) == [type |-> "string", val |-> s]
Num(digits) == [type |-> "number", val |-> digits]

\* const env = (key, defaultValue) => process.env[key] ?? defaultValue
env(value, defaultValue) == IF value = Absent THEN Str(defaultValue) ELSE value

\* AUTO_NUMBER: env("MD2HTML_AUTO_NUMBER", "1") !== "0"
AUTO_NUMBER(envValue) == env(envValue, "1") # Str("0")

\* main that takes only the boolean false for a negative
autoNumberOf_BooleanOnly(auto_number) ==
  IF auto_number # Absent THEN Bool(auto_number # Bool(FALSE)) ELSE Absent

\* main, lines 889-891: undefined is encoded as Absent
autoNumberOf(auto_number) ==
  IF auto_number # Absent
  THEN Bool(auto_number # Bool(FALSE) /\ auto_number # Str("false"))
  ELSE Absent

\* buildHtml, line 566
enableNumbering(autoNumber, cfgAutoNumber) ==
  IF autoNumber # Absent THEN autoNumber = Bool(TRUE) ELSE cfgAutoNumber

\* function buildHeadingNumberCSS(enabled): the rules as one token
HeadingRules == ".markdown-body h2::before { content: counter(h2counter) }"
buildHeadingNumberCSS(enabled) == IF enabled THEN <<HeadingRules>> ELSE <<>>

\* text.replace(/placeholder/g, replacement): every token equal to the
\* placeholder is replaced, in one pass, by the expanded replacement
RECURSIVE replaceAll(_, _, _)
replaceAll(text, placeholder, replacement) ==
  IF text = <<>> THEN <<>>
  ELSE (IF Head(text) = placeholder
        THEN expandReplacement(replacement, <<placeholder>>, <<>>)
        ELSE <<Head(text)>>)
       \o replaceAll(Tail(text), placeholder, replacement)

\* the configuration values of lines 589-596, in the order of the calls
CfgPlaceholders ==
  <<"{{FONT_SIZE}}", "{{LINE_HEIGHT}}", "{{PADDING_X}}", "{{PADDING_Y}}",
    "{{CODE_FONT_SCALE}}", "{{PAGE_BG}}", "{{CODE_BG}}", "{{MAX_WIDTH}}">>
CfgDefaults ==
  <<"14px", "1.6", "32px", "24px", "1em", "#fff", "#f6f8fa", "auto">>

RECURSIVE replaceCfg(_, _)
replaceCfg(text, k) ==
  IF k > Len(CfgPlaceholders) THEN text
  ELSE replaceCfg(replaceAll(text, CfgPlaceholders[k], <<CfgDefaults[k]>>), k + 1)

\* template.html: a file read at run time.  A template is "missing",
\* "unreadable", "empty" (a file of length 0) or "ok".
TemplateText ==
  <<"<style>", "body { font-size: ", "{{FONT_SIZE}}", " }",
    "/*{{HEADING_NUMBER_CSS}}*/", "</style>",
    "<title>", "{{TITLE}}", "</title>", "<article>", "{{BODY}}", "</article>">>

\* fs.readFileSync(p, "utf8"): the text, or a throw
readTemplate(t) ==
  CASE t = "ok" -> [threw |-> FALSE, text |-> TemplateText]
    [] t = "empty" -> [threw |-> FALSE, text |-> <<>>]
    [] OTHER -> [threw |-> TRUE, text |-> <<>>]

\* lines 574-580: the first candidate that can be read; null is <<>> here,
\* and like null the empty text is falsy at line 581
loadTemplate(cwdTmpl, scriptTmpl) ==
  IF ~readTemplate(cwdTmpl).threw THEN readTemplate(cwdTmpl).text
  ELSE IF ~readTemplate(scriptTmpl).threw THEN readTemplate(scriptTmpl).text
  ELSE <<>>

\* function buildHtml({ title, body, cfg, autoNumber })
buildHtml(title, body, cfgAutoNumber, autoNumber, cwdTmpl, scriptTmpl) ==
  LET css == buildHeadingNumberCSS(enableNumbering(autoNumber, cfgAutoNumber))
      tmpl == loadTemplate(cwdTmpl, scriptTmpl)
  IN  IF tmpl = <<>> THEN [threw |-> TRUE, html |-> <<>>]
      ELSE [threw |-> FALSE,
            html |-> replaceCfg(
                       replaceAll(
                         replaceAll(
                           replaceAll(tmpl, "/*{{HEADING_NUMBER_CSS}}*/", css),
                           "{{TITLE}}", title),
                         "{{BODY}}", body),
                       1)]

\* ------------------------------------------------------------------------
\* buildMarkdownIt: the fence rule and the highlight callback
\* ------------------------------------------------------------------------
\* String.prototype.trim on an info string made of words and blanks
RECURSIVE trimStart(_)
trimStart(t) == IF t # <<>> /\ Head(t) = SP THEN trimStart(Tail(t)) ELSE t
RECURSIVE trimEnd(_)
trimEnd(t) == IF t # <<>> /\ t[Len(t)] = SP THEN trimEnd(SubSeq(t, 1, Len(t) - 1)) ELSE t
trim(t) == trimEnd(trimStart(t))

lowerAll(t) == [i \in 1..Len(t) |-> toLowerCase(t[i])]

\* a fence rule that compares the info string as written
isMermaidInfo_CaseSensitive(info) == trim(info) = <<"mermaid">>

\* (token.info || "").trim().toLowerCase() === "mermaid"
isMermaidInfo(info) == lowerAll(trim(info)) = <<"mermaid">>

\* escapeHtml of markdown-it and of highlight.js on the pieces of the model
escapeHtml(t) ==
  [i \in 1..Len(t) |->
     CASE t[i] = "<" -> "&lt;"
       [] t[i] = "&" -> "&amp;"
       [] t[i] = "-->" -> "--&gt;"
       [] OTHER -> t[i]]

\* the first word of the info string, as the default fence rule passes it
langName(info) == IF trim(info) = <<>> THEN "" ELSE Head(trim(info))

\* hljs.getLanguage(lang)
getLanguage(lang) == lang \in {"js"}

\* highlight: (code, lang) => ... of lines 152-162; hljs answers with the
\* escaped code (its spans are left out), or throws
highlight(code, lang, hljs) ==
  IF hljs = "throws" THEN [threw |-> TRUE, html |-> <<>>]
  ELSE [threw |-> FALSE,
        html |-> <<IF lang # "" /\ getLanguage(lang)
                   THEN "<pre><code class=hljs language-" \o lang \o ">"
                   ELSE "<pre><code class=hljs>">>
                   \o escapeHtml(code) \o <<"</code></pre>">>]

\* md.renderer.rules.fence of lines 179-186; baseFence hands the content
\* and the language to options.highlight and returns what it returns
fence(info, content, hljs) ==
  IF isMermaidInfo(info)
  THEN [threw |-> FALSE, calls |-> 0,
        html |-> <<"<div class=mermaid>">> \o content \o <<"</div>">>]
  ELSE LET h == highlight(content, langName(info), hljs)
       IN  [threw |-> h.threw, calls |-> 1, html |-> h.html]

\* ------------------------------------------------------------------------
\* main: the date label of the running header
\* ------------------------------------------------------------------------
\* a value of the front matter made by js-yaml from a timestamp
DateObj(iso) == [type |-> "date", val |-> iso]

\* if (value): undefined, null, "", false and 0 are falsy
jsTruthy(v) ==
  CASE v.type \in {"undefined", "null"} -> FALSE
    [] v.type = "string" -> v.val # ""
    [] v.type = "boolean" -> v.val = "true"
    [] v.type = "number" -> v.val # "0"
    [] OTHER -> TRUE

\* a Date: a calendar day, or the Invalid Date
Day(y, m, d) == [valid |-> TRUE, y |-> y, m |-> m, d |-> d]
InvalidDate == [valid |-> FALSE, y |-> 0, m |-> 0, d |-> 0]

\* the texts new Date(text) can parse, with the day each stands for
IsoDays ==
  ("2024-05-01" :> Day(2024, 5, 1)) @@ ("2025-12-31" :> Day(2025, 12, 31))

\* new Date(value)
newDate(v) ==
  CASE v.type \in {"string", "date"} ->
         IF v.val \in DOMAIN IsoDays THEN IsoDays[v.val] ELSE InvalidDate
    [] v.type \in {"number", "boolean", "null"} -> Day(1970, 1, 1)
    [] OTHER -> InvalidDate

\* date.toLocaleDateString("ja-JP"): no exception for the Invalid Date
toLocaleDateString(date) ==
  IF date.valid
  THEN ToString(date.y) \o "/" \o ToString(date.m) \o "/" \o ToString(date.d)
  ELSE "Invalid Date"

\* main, lines 917-919
dateStrOf(date, now) ==
  IF jsTruthy(date) THEN toLocaleDateString(newDate(date))
  ELSE toLocaleDateString(now)

\* renderPDF, lines 788-797: the header template holds ${dateStr}
headerTemplate(dateStr) == <<"<div style=...>", dateStr, "</div>">>
VARIABLES
  bhPc,        \* main around buildHtml: "off" | "buildHtml" | "render" | "catch" | "end"
  bhAuto,      \* frontMatter.auto_number
  bhEnv,       \* process.env.MD2HTML_AUTO_NUMBER
  bhCwd,       \* template.html in the working directory
  bhScript,    \* template.html in the directory of the script
  bhTitle,     \* title
  bhBody,      \* body
  bhHtml,      \* the document returned by buildHtml
  bhThrew,     \* buildHtml threw its configuration error
  bhRendered,  \* renderPDF was called
  bhPdf,       \* the PDF was written
  bhExit       \* process.exitCode

bhVars == <<bhPc, bhAuto, bhEnv, bhCwd, bhScript, bhTitle, bhBody, bhHtml, bhThrew,
            bhRendered, bhPdf, bhExit>>

BhIdle ==
  /\ bhPc = "off" /\ bhAuto = Absent /\ bhEnv = Absent /\ bhCwd = "missing"
  /\ bhScript = "missing" /\ bhTitle = <<>> /\ bhBody = <<>> /\ bhHtml = <<>>
  /\ bhThrew = FALSE /\ bhRendered = FALSE /\ bhPdf = FALSE /\ bhExit = 0

VARIABLES
  fcPc,       \* main around md.render: "off" | "render" | "catch" | "rendered" | "end"
  fcInfo,     \* token.info of the fenced block
  fcContent,  \* token.content
  fcHljs,     \* how highlight.js answers: "ok" | "throws"
  fcOut,      \* the html of the block
  fcCalls,    \* calls of the highlight callback
  fcThrew,    \* md.render threw
  fcExit      \* process.exitCode

fenceVars == <<fcPc, fcInfo, fcContent, fcHljs, fcOut, fcCalls, fcThrew, fcExit>>

FenceIdle ==
  /\ fcPc = "off" /\ fcInfo = <<>> /\ fcContent = <<>> /\ fcHljs = "ok"
  /\ fcOut = <<>> /\ fcCalls = 0 /\ fcThrew = FALSE /\ fcExit = 0

VARIABLES
  mnPc,        \* position of main, "off" when not running
  mnArgs,      \* process.argv: "ok" | "unknownFlag" | "noInput" | "tooMany"
  mnSaveHtml,  \* cfg.SAVE_HTML
  mnLarge,     \* the assembled html is larger than 50 MB
  mnDate,      \* frontMatter.date
  mnNow,       \* the current date
  mnDateStr,   \* dateStr
  mnHeader,    \* the header template handed to page.pdf
  mnTempHtml,  \* tempHtmlPath: "null" | "saved" | "temp"
  mnEvents,    \* the faults that occurred in the run
  mnPrinted,   \* an error message was printed
  mnExit       \* process.exitCode, -1 while not set

mnVars == <<mnPc, mnArgs, mnSaveHtml, mnLarge, mnDate, mnNow, mnDateStr, mnHeader,
            mnTempHtml, mnEvents, mnPrinted, mnExit>>

MnIdle ==
  /\ mnPc = "off" /\ mnArgs = "ok" /\ mnSaveHtml = FALSE /\ mnLarge = FALSE
  /\ mnDate = Absent /\ mnNow = InvalidDate /\ mnDateStr = "" /\ mnHeader = <<>>
  /\ mnTempHtml = "null" /\ mnEvents = {} /\ mnPrinted = FALSE /\ mnExit = -1

VARIABLES
  metaPc,           \* "off" | "call" | "done"
  metaFrontMatter,  \* the front matter: student_id, author, affiliation
  metaHtml,         \* the fragment, a sequence of tokens
  metaOut           \* the fragment returned by insertAfterFirstH1

metaVars == <<metaPc, metaFrontMatter, metaHtml, metaOut>>

NoFields == [student_id |-> Undefined, author |-> Undefined, affiliation |-> Undefined]

MetaIdle ==
  /\ metaPc = "off" /\ metaFrontMatter = NoFields /\ metaHtml = <<>> /\ metaOut = <<>>

VARIABLES
  rpPc,         \* the await renderPDF is suspended at, "off" when not running
  rpInput,      \* what main hands over: "path" | "html" | "none"
  rpClosed,     \* the page closed: pageClosed || page.isClosed()
  rpPage,       \* browser.newPage() resolved
  rpLog,        \* warnings of renderPDF
  rpFaults,     \* the best-effort steps that rejected with the page open
  rpTimeouts,   \* the steps that ended because their time limit ran out
  rpPdfCalls,   \* calls of page.pdf
  rpPdfClosed,  \* page.pdf was called on a closed page
  rpPdfDone,    \* page.pdf resolved: the PDF is written
  rpErr,        \* the error on its way out: "none" | "closed" | "other"
  rpCleanup,    \* what the finally block attempted
  rpOutcome     \* "pending" | "resolved" | "rejected"

rpVars == <<rpPc, rpInput, rpClosed, rpPage, rpLog, rpFaults, rpTimeouts, rpPdfCalls, rpPdfClosed, rpPdfDone,
            rpErr, rpCleanup, rpOutcome>>

RpIdle ==
  /\ rpPc = "off" /\ rpInput = "none" /\ rpClosed = FALSE /\ rpPage = FALSE
  /\ rpLog = {} /\ rpFaults = {} /\ rpTimeouts = {} /\ rpPdfCalls = 0 /\ rpPdfClosed = FALSE /\ rpPdfDone = FALSE
  /\ rpErr = "none" /\ rpCleanup = {} /\ rpOutcome = "pending"

\* ------------------------------------------------------------------------
\* Each specification runs one component; the others stay idle
\* ------------------------------------------------------------------------
FMIdle ==
  /\ fmPc = "off" /\ fmContent = <<>> /\ fmM = <<>> /\ fmB = <<>>
  /\ fmBlock = FALSE /\ fmFrontMatter = EmptyMap /\ fmBody = <<>>
  /\ fmWarned = FALSE

B64Idle ==
  /\ b64Pc = "off" /\ b64Ext = "" /\ b64Bytes = <<>> /\ b64Info = Null

SvgIdle ==
  /\ svgPc = "off" /\ svgBefore = <<>> /\ svgAfter = <<>>
  /\ svgFile = NoSvg /\ svgOut = NoSvg

PIIdle ==
  /\ html = <<>> /\ embedBase64 = FALSE /\ pc = "off" /\ keys = <<>>
  /\ imageMap = [s \in Srcs |-> Null] /\ idx = 0 /\ tasks = <<>>
  /\ tempFiles = <<>> /\ tempDir = FALSE /\ tmpFs = {} /\ result = <<>>
  /\ subst = 0 /\ unlinked = 0 /\ log = {} /\ mainPc = "off" /\ exitCode = 0

\* ------------------------------------------------------------------------
\* For each component: the variables of the other components, and their
\* idle values
\* ------------------------------------------------------------------------
vars == <<fmVars, b64Vars, svgVars, piVars, metaVars, bhVars, fenceVars, rpVars, mnVars>>

FMRest == <<b64Vars, svgVars, piVars, metaVars, bhVars, fenceVars, rpVars, mnVars>>
FMRestIdle == B64Idle /\ SvgIdle /\ PIIdle /\ MetaIdle /\ BhIdle /\ FenceIdle /\ RpIdle /\ MnIdle

B64Rest == <<fmVars, svgVars, piVars, metaVars, bhVars, fenceVars, rpVars, mnVars>>
B64RestIdle == FMIdle /\ SvgIdle /\ PIIdle /\ MetaIdle /\ BhIdle /\ FenceIdle /\ RpIdle /\ MnIdle

SvgRest == <<fmVars, b64Vars, piVars, metaVars, bhVars, fenceVars, rpVars, mnVars>>
SvgRestIdle == FMIdle /\ B64Idle /\ PIIdle /\ MetaIdle /\ BhIdle /\ FenceIdle /\ RpIdle /\ MnIdle

PIRest == <<fmVars, b64Vars, svgVars, metaVars, bhVars, fenceVars, rpVars, mnVars>>
PIRestIdle == FMIdle /\ B64Idle /\ SvgIdle /\ MetaIdle /\ BhIdle /\ FenceIdle /\ RpIdle /\ MnIdle

MetaRest == <<fmVars, b64Vars, svgVars, piVars, bhVars, fenceVars, rpVars, mnVars>>
MetaRestIdle == FMIdle /\ B64Idle /\ SvgIdle /\ PIIdle /\ BhIdle /\ FenceIdle /\ RpIdle /\ MnIdle

BhRest == <<fmVars, b64Vars, svgVars, piVars, metaVars, fenceVars, rpVars, mnVars>>
BhRestIdle == FMIdle /\ B64Idle /\ SvgIdle /\ PIIdle /\ MetaIdle /\ FenceIdle /\ RpIdle /\ MnIdle

FenceRest == <<fmVars, b64Vars, svgVars, piVars, metaVars, bhVars, rpVars, mnVars>>
FenceRestIdle == FMIdle /\ B64Idle /\ SvgIdle /\ PIIdle /\ MetaIdle /\ BhIdle /\ RpIdle /\ MnIdle

RpRest == <<fmVars, b64Vars, svgVars, piVars, metaVars, bhVars, fenceVars, mnVars>>
RpRestIdle == FMIdle /\ B64Idle /\ SvgIdle /\ PIIdle /\ MetaIdle /\ BhIdle /\ FenceIdle /\ MnIdle

MnRest == <<fmVars, b64Vars, svgVars, piVars, metaVars, bhVars, fenceVars, rpVars>>
MnRestIdle == FMIdle /\ B64Idle /\ SvgIdle /\ PIIdle /\ MetaIdle /\ BhIdle /\ FenceIdle /\ RpIdle

\* ------------------------------------------------------------------------
\* Input texts of the front matter specification
\* ------------------------------------------------------------------------
MPieces == {<<NL>>, <<SP>>, <<"k">>, <<"w">>, <<"[">>, Dashes}
BPieces == {<<NL>>, <<SP>>, <<"w">>, Dashes}

\* every line of the text is blank, a delimiter line, or one pair / word /
\* broken flow sequence with optional surrounding spaces
CleanLines(t) ==
  LET ls == SplitLines(t)
  IN  \A i \in 1..Len(ls) :
        LET s == StripSp(ls[i])
        IN  /\ s \in {<<>>, Dashes, <<"k">>, <<"w">>, <<"[">>}
            /\ (s = Dashes => HasAt(ls[i], 1, Dashes) \/ HasAt(ls[i], 2, Dashes))

MTexts == {t \in {Flatten(ps) : ps \in SeqsUpTo(MPieces, MaxMPieces)} : CleanLines(t)}
BTexts == {t \in {Flatten(ps) : ps \in SeqsUpTo(BPieces, MaxBPieces)} : CleanLines(t)}

OpenDelim == Dashes \o <<NL>>
CloseDelim == <<NL>> \o Dashes \o <<NL>>

InitFM ==
  /\ fmPc = "call"
  /\ fmM \in MTexts
  /\ fmB \in BTexts
  /\ fmBlock \in BOOLEAN
  /\ fmContent = IF fmBlock THEN OpenDelim \o fmM \o CloseDelim \o fmB ELSE fmM \o fmB
  /\ fmFrontMatter = EmptyMap
  /\ fmBody = <<>>
  /\ fmWarned = FALSE
  /\ FMRestIdle

ParseYamlFrontMatter ==
  /\ fmPc = "call"
  /\ LET r == parseYamlFrontMatter(fmContent)
     IN  /\ fmFrontMatter' = r.frontMatter
         /\ fmBody' = r.body
         /\ fmWarned' = r.warned
  /\ fmPc' = "done"
  /\ UNCHANGED <<fmContent, fmM, fmB, fmBlock>>
  /\ UNCHANGED FMRest

NextFM == ParseYamlFrontMatter

SpecFM == InitFM /\ [][NextFM]_vars

\* ------------------------------------------------------------------------
\* Specification of the raster task
\* ------------------------------------------------------------------------
ByteValues == {0, 1, 77, 128, 255}
RasterExts == {"png", "PNG", "jpg", "JPG", "jpeg", "Jpeg", "gif", "webp"}

InitB64 ==
  /\ b64Pc = "call"
  /\ b64Ext \in RasterExts
  /\ b64Bytes \in SeqsUpTo(ByteValues, MaxBytes)
  /\ b64Info = Null
  /\ B64RestIdle

\* lines 408-416, embedBase64 on
EmbedRaster ==
  /\ b64Pc = "call"
  /\ extOf(b64Ext) \in supportedExts
  /\ b64Info' = rasterInfo(extOf(b64Ext), b64Bytes)
  /\ b64Pc' = "done"
  /\ UNCHANGED <<b64Ext, b64Bytes>>
  /\ UNCHANGED B64Rest

NextB64 == EmbedRaster

SpecB64 == InitB64 /\ [][NextB64]_vars

\* ------------------------------------------------------------------------
\* Specification of the inline-svg substitution
\* ------------------------------------------------------------------------
ImgAttrs ==
  {Attr(<<"width">>, "10"), Attr(<<"Width">>, "11"), Attr(<<"height">>, "20"),
   Attr(<<"alt">>, "fig"), Attr(<<"alt">>, ""), Attr(<<"class">>, "c"),
   Attr(<<"data", "width">>, "5")}
RootAttrs ==
  {Attr(<<"width">>, "1em"), Attr(<<"height">>, "2em"),
   Attr(<<"stroke", "width">>, "2"), Attr(<<"class">>, "r"),
   Attr(<<"viewBox">>, "0 0 1 1")}

\* the attribute names of a well-formed root element are distinct
DistinctNames(attrs) ==
  \A i, j \in 1..Len(attrs) : attrs[i].name = attrs[j].name => i = j

InitSvg ==
  /\ svgPc = "call"
  /\ svgBefore \in SeqsUpTo(ImgAttrs, MaxSideAttrs)
  /\ svgAfter \in SeqsUpTo(ImgAttrs, MaxSideAttrs)
  /\ \E root \in SeqsUpTo(RootAttrs, MaxRootAttrs) : \E t \in BOOLEAN :
       /\ DistinctNames(root)
       /\ svgFile = SvgText(root, t, <<>>)
  /\ svgOut = NoSvg
  /\ SvgRestIdle

\* lines 438-491
InlineSvg ==
  /\ svgPc = "call"
  /\ svgOut' = spliceSvg(svgBefore, svgAfter, svgFile)
  /\ svgPc' = "done"
  /\ UNCHANGED <<svgBefore, svgAfter, svgFile>>
  /\ UNCHANGED SvgRest

NextSvg == InlineSvg

SpecSvg == InitSvg /\ [][NextSvg]_vars

\* ------------------------------------------------------------------------
\* Specification of processImages (lines 294-530) as called by main (877)
\* ------------------------------------------------------------------------
InitPI ==
  /\ html \in {h \in SeqsUpTo(Elems, MaxImgs) : Len(h) >= 1}
  /\ embedBase64 \in BOOLEAN
  /\ pc = "scan"
  /\ keys = <<>>
  /\ imageMap = [s \in Srcs |-> Null]
  /\ idx = 0
  /\ tasks = <<>>
  /\ tempFiles = <<>>
  /\ tempDir = FALSE
  /\ tmpFs = {}
  /\ result = <<>>
  /\ subst = 0
  /\ unlinked = 0
  /\ log = {}
  /\ mainPc = "processImages"
  /\ exitCode = 0
  /\ PIRestIdle

Others == PIRest

Log(msg, src) == [msg |-> msg, src |-> src]

\* lines 300-310: one scan of the fragment
Scan ==
  /\ pc = "scan"
  /\ keys' = scanKeys(html, <<>>)
  /\ pc' = "mkdir"
  /\ UNCHANGED <<html, embedBase64, imageMap, idx, tasks, tempFiles, tempDir, tmpFs,
                 result, subst, unlinked, log, mainPc, exitCode, Others>>

\* lines 312-320: fsp.mkdir(tempDir), a failure is logged
Mkdir ==
  /\ pc = "mkdir"
  /\ \E ok \in BOOLEAN :
       /\ tempDir' = ok
       /\ log' = IF ok THEN log ELSE log \cup {Log("mkdirFailed", "")}
  /\ idx' = 1
  /\ pc' = "loop"
  /\ UNCHANGED <<html, embedBase64, keys, imageMap, tasks, tempFiles, tmpFs,
                 result, subst, unlinked, mainPc, exitCode, Others>>

cur == keys[idx]
curFile == Files[cur]
curExt == extOf(curFile.rawExt)

LoopFrame == UNCHANGED <<html, embedBase64, keys, tempFiles, tempDir, tmpFs,
                         result, subst, unlinked, mainPc, exitCode, Others>>

\* lines 322-326: a remote URL is skipped
LoopSkipRemote ==
  /\ pc = "loop" /\ idx <= Len(keys)
  /\ isRemote(cur)
  /\ idx' = idx + 1
  /\ UNCHANGED <<pc, imageMap, tasks, log>>
  /\ LoopFrame

\* lines 328-331: await fsp.stat(absPath)
LoopStat ==
  /\ pc = "loop" /\ idx <= Len(keys)
  /\ ~isRemote(cur)
  /\ pc' = "stat"
  /\ UNCHANGED <<idx, imageMap, tasks, log>>
  /\ LoopFrame

Continue == idx' = idx + 1 /\ pc' = "loop"
Found == pc = "stat" /\ curFile.exists /\ curFile.isFile

\* lines 332-335: no such file, or not a regular file
LoopNotFound ==
  /\ pc = "stat"
  /\ ~curFile.exists \/ ~curFile.isFile
  /\ log' = log \cup {Log("notFound", cur)}
  /\ Continue
  /\ UNCHANGED <<imageMap, tasks>>
  /\ LoopFrame

\* Date.now() never runs backwards: the readings still possible
laterTimes ==
  {t \in 0..MaxClock : \A i \in 1..Len(tasks) : tasks[i].kind = "pdf" => t >= tasks[i].now}

Task(src, kind, st) == [src |-> src, kind |-> kind, st |-> st, now |-> 0, path |-> ""]

\* lines 340-366: a pdf with embedBase64: the task calls convertPdfToSvg,
\* which reads the clock for svgPath and starts pdftocairo
LoopPdfTask ==
  /\ Found /\ curExt = "pdf" /\ embedBase64
  /\ \E t \in laterTimes :
       tasks' = Append(tasks, [src |-> cur, kind |-> "pdf", st |-> "conv",
                               now |-> t, path |-> svgPathOf(cur, t)])
  /\ Continue
  /\ UNCHANGED <<imageMap, log>>
  /\ LoopFrame

\* lines 367-373: a pdf without embedBase64
LoopPdfFile ==
  /\ Found /\ curExt = "pdf" /\ ~embedBase64
  /\ log' = log \cup {Log("pdfNotEmbedded", cur)}
  /\ imageMap' = [imageMap EXCEPT ![cur] = ImageInfo("file", FileUrl(absPathOf(cur)), NoSvg)]
  /\ Continue
  /\ UNCHANGED tasks
  /\ LoopFrame

\* lines 376-379
LoopUnsupported ==
  /\ Found /\ curExt # "pdf" /\ curExt \notin supportedExts
  /\ log' = log \cup {Log("unsupported", cur)}
  /\ Continue
  /\ UNCHANGED <<imageMap, tasks>>
  /\ LoopFrame

\* fileSizeMB > 1.0
isLarge(size) == size > SvgInlineLimit

\* lines 386-394: a large svg with embedBase64
LoopSvgLarge ==
  /\ Found /\ curExt = "svg" /\ isLarge(curFile.size) /\ embedBase64
  /\ tasks' = Append(tasks, Task(cur, "svgBase64", "read"))
  /\ Continue
  /\ UNCHANGED <<imageMap, log>>
  /\ LoopFrame

\* lines 395-399: a large svg without embedBase64
LoopSvgLargeFile ==
  /\ Found /\ curExt = "svg" /\ isLarge(curFile.size) /\ ~embedBase64
  /\ imageMap' = [imageMap EXCEPT ![cur] = ImageInfo("file", FileUrl(absPathOf(cur)), NoSvg)]
  /\ Continue
  /\ UNCHANGED <<tasks, log>>
  /\ LoopFrame

\* lines 400-407: any other svg is read as text
LoopSvgInline ==
  /\ Found /\ curExt = "svg" /\ ~isLarge(curFile.size)
  /\ tasks' = Append(tasks, Task(cur, "svgInline", "read"))
  /\ Continue
  /\ UNCHANGED <<imageMap, log>>
  /\ LoopFrame

\* lines 408-416: a raster file with embedBase64
LoopRaster ==
  /\ Found /\ curExt \in supportedExts \ {"svg"} /\ embedBase64
  /\ tasks' = Append(tasks, Task(cur, "raster", "read"))
  /\ Continue
  /\ UNCHANGED <<imageMap, log>>
  /\ LoopFrame

\* lines 417-421: a raster file without embedBase64
LoopRasterFile ==
  /\ Found /\ curExt \in supportedExts \ {"svg"} /\ ~embedBase64
  /\ imageMap' = [imageMap EXCEPT ![cur] = ImageInfo("file", FileUrl(absPathOf(cur)), NoSvg)]
  /\ Continue
  /\ UNCHANGED <<tasks, log>>
  /\ LoopFrame

\* line 425: the loop is over, line 428 awaits the tasks
LoopEnd ==
  /\ pc = "loop" /\ idx > Len(keys)
  /\ pc' = "await"
  /\ UNCHANGED <<idx, imageMap, tasks, log>>
  /\ LoopFrame

\* ---- the tasks: their callbacks run while processImages is suspended in
\* an await (lines 331, 428, 501), and go on running after it has rejected ----
Running == pc \in {"stat", "await", "unlink", "rejected"}

TaskFrame == UNCHANGED <<html, embedBase64, pc, keys, idx, result, subst, unlinked,
                         mainPc, exitCode, Others>>

SetTask(i, st) == tasks' = [tasks EXCEPT ![i].st = st]

\* what a read task stores
readInfo(kind, f) ==
  CASE kind = "raster" -> rasterInfo(extOf(f.rawExt), f.bytes)
    [] kind = "svgBase64" -> svgBase64Info(f.bytes)
    [] kind = "svgInline" -> ImageInfo("svg", NoUrl, f.svg)

\* lines 389-393, 403-405, 411-415: fsp.readFile settles
TaskRead(i) ==
  /\ Running
  /\ tasks[i].kind \in {"raster", "svgBase64", "svgInline"} /\ tasks[i].st = "read"
  /\ LET t == tasks[i]
         f == Files[t.src]
     IN  IF f.readOk
         THEN /\ imageMap' = [imageMap EXCEPT ![taskKey(keys, t.src)] = readInfo(t.kind, f)]
              /\ log' = IF t.kind = "svgBase64" THEN log \cup {Log("largeSvg", t.src)} ELSE log
              /\ SetTask(i, "ok")
         ELSE /\ SetTask(i, "rejected")
              /\ UNCHANGED <<imageMap, log>>
  /\ UNCHANGED <<tempFiles, tempDir, tmpFs>>
  /\ TaskFrame

\* convertPdfToSvg resolves null: line 363, imageMap.delete(src)
ConvNull(i, msgs) ==
  /\ log' = log \cup {Log(m, tasks[i].src) : m \in msgs}
  /\ imageMap' = [imageMap EXCEPT ![taskKey(keys, tasks[i].src)] =
                    ImageInfo("deleted", NoUrl, NoSvg)]
  /\ SetTask(i, "ok")

\* lines 247-282: pdftocairo ends (close), or could not be started (error)
ConvClose(i) ==
  /\ Running
  /\ tasks[i].kind = "pdf" /\ tasks[i].st = "conv"
  /\ LET t == tasks[i]
         conv == Files[t.src].conv
         wrote == conv \in {"ok", "failWrote"} /\ tempDir
     IN  /\ tmpFs' = IF wrote THEN writeFile(tmpFs, t.path, t.src) ELSE tmpFs
         /\ IF conv = "enoent"
            THEN ConvNull(i, {"pdftocairoMissing", "installHint"})
            ELSE IF conv = "nooutput" \/ (conv = "ok" /\ tempDir)
            THEN SetTask(i, "convStat") /\ UNCHANGED <<imageMap, log>>
            ELSE ConvNull(i, {"convertFailed"})
  /\ UNCHANGED <<tempFiles, tempDir>>
  /\ TaskFrame

\* lines 250-260, 344-346: the stat in convertPdfToSvg, then tempFiles.push
ConvStat(i) ==
  /\ Running
  /\ tasks[i].kind = "pdf" /\ tasks[i].st = "convStat"
  /\ IF fileExists(tmpFs, tasks[i].path)
     THEN /\ tempFiles' = Append(tempFiles, tasks[i].path)
          /\ SetTask(i, "stat")
          /\ UNCHANGED <<imageMap, log>>
     ELSE /\ ConvNull(i, {"convertedMissing"})
          /\ UNCHANGED tempFiles
  /\ UNCHANGED <<tempDir, tmpFs>>
  /\ TaskFrame

\* the file that stands at svgPath when the task looks at it
svgFileOf(i) == Files[ownerOf(tmpFs, tasks[i].path)]

\* lines 348-352: await fsp.stat(svgPath)
TaskStat(i) ==
  /\ Running
  /\ tasks[i].kind = "pdf" /\ tasks[i].st = "stat"
  /\ IF Files[tasks[i].src].convStatOk
     THEN SetTask(i, IF isLarge(svgFileOf(i).size) THEN "readBase64" ELSE "readText")
     ELSE SetTask(i, "rejected")
  /\ UNCHANGED <<imageMap, log, tempFiles, tempDir, tmpFs>>
  /\ TaskFrame

\* lines 353-361: await fsp.readFile(svgPath)
TaskReadSvg(i) ==
  /\ Running
  /\ tasks[i].kind = "pdf" /\ tasks[i].st \in {"readBase64", "readText"}
  /\ LET t == tasks[i]
     IN  IF Files[t.src].convReadOk
         THEN /\ imageMap' = [imageMap EXCEPT ![taskKey(keys, t.src)] =
                  IF t.st = "readBase64" THEN svgBase64Info(svgFileOf(i).bytes)
                  ELSE ImageInfo("svg", NoUrl, svgFileOf(i).svg)]
              /\ log' = IF t.st = "readBase64" THEN log \cup {Log("largeSvg", t.src)} ELSE log
              /\ SetTask(i, "ok")
         ELSE /\ SetTask(i, "rejected")
              /\ UNCHANGED <<imageMap, log>>
  /\ UNCHANGED <<tempFiles, tempDir, tmpFs>>
  /\ TaskFrame

Rejected(i) == tasks[i].st = "rejected"

\* ---- line 428: await Promise.all(tasks) ----
PIFrame == UNCHANGED <<html, embedBase64, keys, imageMap, idx, tasks, tempFiles,
                       log, mainPc, exitCode, Others>>

\* a substitution pass that does not wait for the tasks
allFulfilled_Unawaited(ts) == TRUE

\* Promise.all(tasks) resolves when every task is fulfilled
allFulfilled(ts) == \A i \in 1..Len(ts) : ts[i].st = "ok"

AwaitAll ==
  /\ pc = "await"
  /\ allFulfilled(tasks)
  /\ result' = [i \in 1..Len(html) |-> <<html[i]>>]
  /\ subst' = 1
  /\ pc' = "subst"
  /\ UNCHANGED <<tempDir, tmpFs, unlinked>>
  /\ PIFrame

\* a rejected task rejects Promise.all, and with it processImages
AwaitReject ==
  /\ pc = "await"
  /\ \E i \in 1..Len(tasks) : Rejected(i)
  /\ pc' = "rejected"
  /\ UNCHANGED <<tempDir, tmpFs, result, subst, unlinked>>
  /\ PIFrame

\* A task rejected while the loop is still awaiting a stat has no handler:
\* the runtime may end the process on the unhandled rejection.
UnhandledRejection ==
  /\ pc = "stat"
  /\ \E i \in 1..Len(tasks) : Rejected(i)
  /\ pc' = "crashed"
  /\ mainPc' = "crashed"
  /\ exitCode' = 1
  /\ UNCHANGED <<html, embedBase64, keys, imageMap, idx, tasks, tempFiles, tempDir,
                 tmpFs, result, subst, unlinked, log, Others>>

\* ---- lines 431-496: the substitution pass ----
Substitute ==
  /\ pc = "subst" /\ subst <= Len(html)
  /\ result' = substituteOne(result, html[subst], imageMap[html[subst].src.path])
  /\ subst' = subst + 1
  /\ UNCHANGED <<pc, tempDir, tmpFs, unlinked>>
  /\ PIFrame

SubstituteEnd ==
  /\ pc = "subst" /\ subst > Len(html)
  /\ unlinked' = 1
  /\ pc' = "unlink"
  /\ UNCHANGED <<tempDir, tmpFs, result, subst>>
  /\ PIFrame

\* ---- lines 498-515: temporary files and directory ----
Unlink ==
  /\ pc = "unlink" /\ unlinked <= Len(tempFiles)
  /\ tmpFs' = {f \in tmpFs : f.path # tempFiles[unlinked]}
  /\ log' = IF fileExists(tmpFs, tempFiles[unlinked]) THEN log
            ELSE log \cup {Log("unlinkFailed", tempFiles[unlinked])}
  /\ unlinked' = unlinked + 1
  /\ UNCHANGED <<html, embedBase64, pc, keys, imageMap, idx, tasks, tempFiles, tempDir,
                 result, subst, mainPc, exitCode, Others>>

Rmdir ==
  /\ pc = "unlink" /\ unlinked > Len(tempFiles)
  /\ tempDir' = (tempDir /\ tmpFs # {})
  /\ pc' = "done"
  /\ UNCHANGED <<tmpFs, result, subst, unlinked>>
  /\ PIFrame

\* ---- main, lines 877-886 and 952-957 ----
MainFrame == UNCHANGED <<html, embedBase64, pc, keys, imageMap, idx, tasks, tempFiles,
                         tempDir, tmpFs, result, subst, unlinked, log, Others>>

MainContinue ==
  /\ pc = "done" /\ mainPc = "processImages"
  /\ mainPc' = "metaInfo"
  /\ UNCHANGED exitCode
  /\ MainFrame

MainCatch ==
  /\ pc = "rejected" /\ mainPc = "processImages"
  /\ mainPc' = "catch"
  /\ exitCode' = 1
  /\ MainFrame

Next ==
  \/ Scan \/ Mkdir
  \/ LoopSkipRemote \/ LoopStat \/ LoopNotFound \/ LoopPdfTask \/ LoopPdfFile
  \/ LoopUnsupported \/ LoopSvgLarge \/ LoopSvgLargeFile \/ LoopSvgInline
  \/ LoopRaster \/ LoopRasterFile \/ LoopEnd
  \/ \E i \in 1..Len(tasks) : TaskRead(i)
  \/ \E i \in 1..Len(tasks) : ConvClose(i)
  \/ \E i \in 1..Len(tasks) : ConvStat(i)
  \/ \E i \in 1..Len(tasks) : TaskStat(i)
  \/ \E i \in 1..Len(tasks) : TaskReadSvg(i)
  \/ AwaitAll \/ AwaitReject \/ UnhandledRejection
  \/ Substitute \/ SubstituteEnd \/ Unlink \/ Rmdir
  \/ MainContinue \/ MainCatch

Spec == InitPI /\ [][Next]_vars

\* ------------------------------------------------------------------------
\* Specification of the metadata block (main, lines 884-886)
\* ------------------------------------------------------------------------
FieldValues ==
  {Undefined, Text(<<>>), Text(<<"A">>), Text(<<"$1">>), Text(<<"B", "$&">>), Text(<<"$$">>)}
FragTokens == {"<h1>", "</h1>", "p"}

InitMeta ==
  /\ metaPc = "call"
  /\ metaFrontMatter \in [student_id : FieldValues, author : FieldValues,
                          affiliation : FieldValues]
  /\ metaHtml \in SeqsUpTo(FragTokens, MaxFragLen)
  /\ metaOut = <<>>
  /\ MetaRestIdle

\* html = insertAfterFirstH1(html, generateMetaInfo(frontMatter))
InsertMeta ==
  /\ metaPc = "call"
  /\ metaOut' = insertAfterFirstH1(metaHtml, generateMetaInfo(metaFrontMatter))
  /\ metaPc' = "done"
  /\ UNCHANGED <<metaFrontMatter, metaHtml>>
  /\ UNCHANGED MetaRest

NextMeta == InsertMeta

SpecMeta == InitMeta /\ [][NextMeta]_vars

\* ------------------------------------------------------------------------
\* Specification of the assembly of the document (main, lines 888-957)
\* ------------------------------------------------------------------------
AutoValues ==
  {Absent, YNull, Bool(TRUE), Bool(FALSE), Str("false"), Str("true"), Str("no"), Num("0")}
EnvValues == {Absent, Str("0"), Str("1"), Str("")}
TemplateStates == {"missing", "unreadable", "empty", "ok"}
BodyTokens == {"p", "$&", "$$", "{{FONT_SIZE}}"}

InitBh ==
  /\ bhPc = "buildHtml"
  /\ bhAuto \in AutoValues
  /\ bhEnv \in EnvValues
  /\ bhCwd \in TemplateStates
  /\ bhScript \in TemplateStates
  /\ bhTitle = <<"doc">>
  /\ bhBody \in SeqsUpTo(BodyTokens, MaxBodyLen)
  /\ bhHtml = <<>>
  /\ bhThrew = FALSE /\ bhRendered = FALSE /\ bhPdf = FALSE /\ bhExit = 0
  /\ BhRestIdle

BhInputs == <<bhAuto, bhEnv, bhCwd, bhScript, bhTitle, bhBody>>

\* lines 888-895: the flag of the front matter, then buildHtml
BuildHtml ==
  /\ bhPc = "buildHtml"
  /\ LET r == buildHtml(bhTitle, bhBody, AUTO_NUMBER(bhEnv), autoNumberOf(bhAuto),
                        bhCwd, bhScript)
     IN  /\ bhThrew' = r.threw
         /\ bhHtml' = r.html
         /\ bhPc' = IF r.threw THEN "catch" ELSE "render"
  /\ UNCHANGED <<BhInputs, bhRendered, bhPdf, bhExit>>
  /\ UNCHANGED BhRest

\* lines 930-950: renderPDF resolves after writing the PDF, or rejects
RenderDocument ==
  /\ bhPc = "render"
  /\ bhRendered' = TRUE
  /\ \E ok \in BOOLEAN :
       /\ bhPdf' = ok
       /\ bhPc' = IF ok THEN "end" ELSE "catch"
  /\ UNCHANGED <<BhInputs, bhHtml, bhThrew, bhExit>>
  /\ UNCHANGED BhRest

\* lines 952-957: catch and finally of main
CatchError ==
  /\ bhPc = "catch"
  /\ bhExit' = 1
  /\ bhPc' = "end"
  /\ UNCHANGED <<BhInputs, bhHtml, bhThrew, bhRendered, bhPdf>>
  /\ UNCHANGED BhRest

NextBh == BuildHtml \/ RenderDocument \/ CatchError

SpecBh == InitBh /\ [][NextBh]_vars

\* ------------------------------------------------------------------------
\* Specification of the rendering of a fenced block (main, lines 871-874)
\* ------------------------------------------------------------------------
InfoPieces == {SP, "mermaid", "MERMAID", "js"}
ContentPieces == {"A", "-->", "<", "&"}

InitFence ==
  /\ fcPc = "render"
  /\ fcInfo \in SeqsUpTo(InfoPieces, MaxInfoLen)
  /\ fcContent \in SeqsUpTo(ContentPieces, MaxContentLen)
  /\ fcHljs \in {"ok", "throws"}
  /\ fcOut = <<>> /\ fcCalls = 0 /\ fcThrew = FALSE /\ fcExit = 0
  /\ FenceRestIdle

\* const bodyHtml = md.render(body)
RenderFence ==
  /\ fcPc = "render"
  /\ LET r == fence(fcInfo, fcContent, fcHljs)
     IN  /\ fcOut' = r.html
         /\ fcCalls' = r.calls
         /\ fcThrew' = r.threw
         /\ fcPc' = IF r.threw THEN "catch" ELSE "rendered"
  /\ UNCHANGED <<fcInfo, fcContent, fcHljs, fcExit>>
  /\ UNCHANGED FenceRest

\* main goes on with processImages
FenceContinue ==
  /\ fcPc = "rendered"
  /\ fcPc' = "end"
  /\ UNCHANGED <<fcInfo, fcContent, fcHljs, fcOut, fcCalls, fcThrew, fcExit>>
  /\ UNCHANGED FenceRest

\* lines 952-957: catch and finally of main
FenceCatch ==
  /\ fcPc = "catch"
  /\ fcExit' = 1
  /\ fcPc' = "end"
  /\ UNCHANGED <<fcInfo, fcContent, fcHljs, fcOut, fcCalls, fcThrew>>
  /\ UNCHANGED FenceRest

NextFence == RenderFence \/ FenceContinue \/ FenceCatch

SpecFence == InitFence /\ [][NextFence]_vars

\* ------------------------------------------------------------------------
\* Specification of renderPDF (lines 607-837)
\* ------------------------------------------------------------------------
InitRp ==
  /\ rpPc = "launch"
  /\ rpInput \in {"path", "html", "none"}
  /\ rpClosed = FALSE /\ rpPage = FALSE
  /\ rpLog = {} /\ rpFaults = {} /\ rpTimeouts = {} /\ rpPdfCalls = 0 /\ rpPdfClosed = FALSE /\ rpPdfDone = FALSE
  /\ rpErr = "none" /\ rpCleanup = {} /\ rpOutcome = "pending"
  /\ RpRestIdle

\* the awaits during which the page can close under renderPDF
WaitPoints == {"load", "domWait", "imageWait", "typeset", "typesetHung", "settle", "pdf"}

\* how an awaited call on the page can end; it may have resolved just
\* before the page closed
Outcomes == {"ok", "reject", "timeout"}

\* a time limit that runs out rejects the awaited call
rejects(r) == r \in {"reject", "timeout"}

timedOut(step, r) == IF r = "timeout" THEN rpTimeouts \cup {step} ELSE rpTimeouts

\* how page.pdf can end: the export cannot complete on a closed page
PdfOutcomes == IF rpClosed THEN {"reject", "timeout"} ELSE Outcomes

\* a throw inside the try block: control goes to the finally block
Throw(kind) == rpErr' = kind /\ rpPc' = "finally"

\* the tests of lines 658, 673, 721, 758 after a step: throw when closed
Proceed(next) == IF rpClosed THEN Throw("closed") ELSE rpPc' = next /\ UNCHANGED rpErr

\* a test before page.pdf that lets a closed page through
closedBeforePdf_Skipped(closed) == FALSE

\* the tests of lines 766 and 771 before page.pdf
closedBeforePdf(closed) == closed

\* a catch block that takes every fault of the step for fatal
faultIsFatal_Always(closed) == TRUE

\* the catch blocks of lines 712-718 and 749-755: fatal only when closed
faultIsFatal(closed) == closed

RpFrame == UNCHANGED <<rpInput, rpCleanup, rpOutcome>>

\* the page closes (the close event and page.isClosed())
PageCloses ==
  /\ rpPc \in WaitPoints /\ ~rpClosed
  /\ rpClosed' = TRUE
  /\ UNCHANGED <<rpPc, rpPage, rpLog, rpFaults, rpTimeouts, rpPdfCalls, rpPdfClosed, rpPdfDone, rpErr>>
  /\ RpFrame /\ UNCHANGED RpRest

\* line 608: puppeteer.launch, outside the try block
Launch ==
  /\ rpPc = "launch"
  /\ \E ok \in BOOLEAN :
       IF ok THEN rpPc' = "newPage" /\ UNCHANGED <<rpErr, rpOutcome>>
       ELSE rpPc' = "end" /\ rpErr' = "launch" /\ rpOutcome' = "rejected"
  /\ UNCHANGED <<rpInput, rpClosed, rpPage, rpLog, rpFaults, rpTimeouts, rpPdfCalls, rpPdfClosed, rpPdfDone,
                 rpCleanup>>
  /\ UNCHANGED RpRest

\* lines 623-649: browser.newPage, the handlers, then goto or setContent
NewPage ==
  /\ rpPc = "newPage"
  /\ \E ok \in BOOLEAN :
       /\ rpPage' = ok
       /\ IF ~ok \/ rpInput = "none" THEN Throw("other")
          ELSE rpPc' = "load" /\ UNCHANGED rpErr
  /\ UNCHANGED <<rpClosed, rpLog, rpFaults, rpTimeouts, rpPdfCalls, rpPdfClosed, rpPdfDone>>
  /\ RpFrame /\ UNCHANGED RpRest

\* lines 636-664: goto or setContent settles
LoadSettles ==
  /\ rpPc = "load"
  /\ \E r \in Outcomes :
       /\ rpTimeouts' = timedOut("load", r)
       /\ IF rejects(r) THEN Throw(IF rpClosed THEN "closed" ELSE "other")
          ELSE Proceed("domWait")
  /\ UNCHANGED <<rpClosed, rpPage, rpLog, rpFaults, rpPdfCalls, rpPdfClosed, rpPdfDone>>
  /\ RpFrame /\ UNCHANGED RpRest

\* lines 663-679: waitForFunction settles
DomWaitSettles ==
  /\ rpPc = "domWait"
  /\ \E r \in Outcomes :
       /\ rpTimeouts' = timedOut("domWait", r)
       /\ IF rejects(r) THEN Throw(IF rpClosed THEN "closed" ELSE "other")
          ELSE Proceed("imageWait")
  /\ UNCHANGED <<rpClosed, rpPage, rpLog, rpFaults, rpPdfCalls, rpPdfClosed, rpPdfDone>>
  /\ RpFrame /\ UNCHANGED RpRest

\* a best-effort step: its fault is a warning unless the page closed
BestEffort(step, next) ==
  \E r \in Outcomes :
    /\ rpTimeouts' = timedOut(step, r)
    /\ IF rejects(r)
       THEN /\ rpFaults' = IF rpClosed THEN rpFaults ELSE rpFaults \cup {step}
            /\ IF faultIsFatal(rpClosed)
               THEN Throw(IF rpClosed THEN "closed" ELSE "other") /\ UNCHANGED rpLog
               ELSE rpLog' = rpLog \cup {step} /\ Proceed(next)
       ELSE Proceed(next) /\ UNCHANGED <<rpLog, rpFaults>>

\* lines 678-727: the image wait settles
ImageWaitSettles ==
  /\ rpPc = "imageWait"
  /\ BestEffort("imageWait", "typeset")
  /\ UNCHANGED <<rpClosed, rpPage, rpPdfCalls, rpPdfClosed, rpPdfDone>>
  /\ RpFrame /\ UNCHANGED RpRest

\* lines 727-748: mermaid.run or MathJax.typesetPromise never settles; the
\* page.evaluate of line 727 is given no timeout
TypesetHangs ==
  /\ rpPc = "typeset"
  /\ rpPc' = "typesetHung"
  /\ UNCHANGED <<rpClosed, rpPage, rpLog, rpFaults, rpTimeouts, rpPdfCalls, rpPdfClosed, rpPdfDone, rpErr>>
  /\ RpFrame /\ UNCHANGED RpRest

\* lines 726-763: the typesetting of diagrams and formulas settles; a
\* hanging evaluation settles only when the page closes under it
TypesetSettles ==
  /\ rpPc = "typeset" \/ (rpPc = "typesetHung" /\ rpClosed)
  /\ BestEffort("typeset", "settle")
  /\ UNCHANGED <<rpClosed, rpPage, rpPdfCalls, rpPdfClosed, rpPdfDone>>
  /\ RpFrame /\ UNCHANGED RpRest

\* lines 763-776: the delay of 500 ms is over, page.pdf is called
SettleDone ==
  /\ rpPc = "settle"
  /\ IF closedBeforePdf(rpClosed)
     THEN Throw("closed") /\ UNCHANGED <<rpPdfCalls, rpPdfClosed>>
     ELSE /\ rpPc' = "pdf"
          /\ rpPdfCalls' = rpPdfCalls + 1
          /\ rpPdfClosed' = rpClosed
          /\ UNCHANGED rpErr
  /\ UNCHANGED <<rpClosed, rpPage, rpLog, rpFaults, rpTimeouts, rpPdfDone>>
  /\ RpFrame /\ UNCHANGED RpRest

\* lines 775-818: page.pdf settles
PdfSettles ==
  /\ rpPc = "pdf"
  /\ \E r \in PdfOutcomes :
       /\ rpTimeouts' = timedOut("pdf", r)
       /\ IF rejects(r)
          THEN Throw(IF rpClosed THEN "closed" ELSE "other") /\ UNCHANGED rpPdfDone
          ELSE rpPdfDone' = TRUE /\ rpPc' = "finally" /\ UNCHANGED rpErr
  /\ UNCHANGED <<rpClosed, rpPage, rpLog, rpFaults, rpPdfCalls, rpPdfClosed>>
  /\ RpFrame /\ UNCHANGED RpRest

\* a finally block whose close error leaves it
closeError_Rethrown(err, ok) == IF ok THEN err ELSE "cleanup"

\* the empty catch blocks of lines 827-829 and 833-835: the error of a
\* close is dropped, the error on its way out stays
closeError(err, ok) == err

\* lines 822-830: page.close() when the page is open; its error is ignored
FinallyPage ==
  /\ rpPc = "finally"
  /\ IF rpPage /\ ~rpClosed
     THEN \E ok \in BOOLEAN :
            /\ rpCleanup' = rpCleanup \cup {IF ok THEN "page.close" ELSE "page.close failed"}
            /\ rpErr' = closeError(rpErr, ok)
     ELSE UNCHANGED <<rpCleanup, rpErr>>
  /\ rpPc' = "browserClose"
  /\ UNCHANGED <<rpInput, rpClosed, rpPage, rpLog, rpFaults, rpTimeouts, rpPdfCalls, rpPdfClosed,
                 rpPdfDone, rpOutcome>>
  /\ UNCHANGED RpRest

\* lines 831-837: browser.close(); its error is ignored; renderPDF settles
FinallyBrowser ==
  /\ rpPc = "browserClose"
  /\ \E ok \in BOOLEAN :
       /\ rpCleanup' = rpCleanup \cup {IF ok THEN "browser.close" ELSE "browser.close failed"}
       /\ rpErr' = closeError(rpErr, ok)
  /\ rpOutcome' = IF rpErr' = "none" THEN "resolved" ELSE "rejected"
  /\ rpPc' = "end"
  /\ UNCHANGED <<rpInput, rpClosed, rpPage, rpLog, rpFaults, rpTimeouts, rpPdfCalls, rpPdfClosed,
                 rpPdfDone>>
  /\ UNCHANGED RpRest

NextRp ==
  \/ PageCloses \/ Launch \/ NewPage \/ LoadSettles \/ DomWaitSettles
  \/ ImageWaitSettles \/ TypesetHangs \/ TypesetSettles \/ SettleDone \/ PdfSettles
  \/ FinallyPage \/ FinallyBrowser

SpecRp == InitRp /\ [][NextRp]_vars

\* the steps of renderPDF itself: every await whose call has a timeout, or
\* whose promise is already settled, is resumed by the event loop
RpProgress ==
  \/ Launch \/ NewPage \/ LoadSettles \/ DomWaitSettles
  \/ ImageWaitSettles \/ TypesetSettles \/ SettleDone \/ PdfSettles
  \/ FinallyPage \/ FinallyBrowser

SpecRpFair == SpecRp /\ WF_vars(RpProgress)

\* ------------------------------------------------------------------------
\* Specification of main (lines 846-958)
\* ------------------------------------------------------------------------
DateValues ==
  {Absent, YNull, Str(""), Str("someday"), Str("2024-13-45"), Num("0"), Bool(FALSE)}
    \cup {Str(t) : t \in DOMAIN IsoDays} \cup {DateObj(t) : t \in DOMAIN IsoDays}
Todays == {Day(2024, 5, 1), Day(2026, 11, 6)}
ArgStates == {"ok", "unknownFlag", "noInput", "tooMany"}

InitMain ==
  /\ mnPc = "parseArgs"
  /\ mnArgs \in ArgStates
  /\ mnSaveHtml \in BOOLEAN
  /\ mnLarge \in BOOLEAN
  /\ mnDate \in DateValues
  /\ mnNow \in Todays
  /\ mnDateStr = "" /\ mnHeader = <<>> /\ mnTempHtml = "null"
  /\ mnEvents = {} /\ mnPrinted = FALSE /\ mnExit = -1
  /\ MnRestIdle

MnInputs == <<mnArgs, mnSaveHtml, mnLarge, mnDate, mnNow>>
MnFrame == UNCHANGED <<MnInputs, mnDateStr, mnHeader, mnTempHtml, mnPrinted, mnExit>>

\* a step goes on, with or without a warning
mnGo(next, warnings) == mnPc' = next /\ mnEvents' = mnEvents \cup warnings

\* an exception inside the try block of lines 849-951
mnThrow(event) == mnPc' = "catch" /\ mnEvents' = mnEvents \cup {event}

\* lines 851-853: parseArgs throws for an unknown flag and for a wrong
\* number of positional arguments
ParseArgs ==
  /\ mnPc = "parseArgs"
  /\ IF mnArgs = "ok" THEN mnGo("mkdir", {}) ELSE mnThrow("badArguments")
  /\ MnFrame /\ UNCHANGED MnRest

\* line 862: fsp.mkdir of the output directory
MkOutDir ==
  /\ mnPc = "mkdir"
  /\ \E ok \in BOOLEAN : IF ok THEN mnGo("readFile", {}) ELSE mnThrow("mkdirFailed")
  /\ MnFrame /\ UNCHANGED MnRest

\* lines 868-869: fsp.readFile of the source, then parseYamlFrontMatter,
\* which warns and goes on when the front matter is no YAML
ReadSource ==
  /\ mnPc = "readFile"
  /\ \E r \in {"ok", "yamlInvalid", "unreadable"} :
       CASE r = "ok" -> mnGo("render", {})
         [] r = "yamlInvalid" -> mnGo("render", {"yamlInvalid"})
         [] r = "unreadable" -> mnThrow("sourceUnreadable")
  /\ MnFrame /\ UNCHANGED MnRest

\* lines 873-874: md.render; an exception of the highlight callback leaves it
RenderMarkdown ==
  /\ mnPc = "render"
  /\ \E ok \in BOOLEAN : IF ok THEN mnGo("processImages", {}) ELSE mnThrow("highlightFailed")
  /\ MnFrame /\ UNCHANGED MnRest

\* lines 877-882: await processImages: it returns (with or without
\* warnings), or rejects with the rejection of a task
ProcessImagesDone ==
  /\ mnPc = "processImages"
  /\ \E r \in {"ok", "assetMissing", "conversionFailed", "assetUnreadable"} :
       CASE r = "ok" -> mnGo("buildHtml", {})
         [] r \in {"assetMissing", "conversionFailed"} -> mnGo("buildHtml", {r})
         [] r = "assetUnreadable" -> mnThrow("assetUnreadable")
  /\ MnFrame /\ UNCHANGED MnRest

\* a task rejected while processImages awaited a stat: the rejection has no
\* handler, the runtime prints it and ends the process
ProcessImagesCrash ==
  /\ mnPc = "processImages"
  /\ mnEvents' = mnEvents \cup {"assetUnreadable"}
  /\ mnPrinted' = TRUE
  /\ mnExit' = 1
  /\ mnPc' = "end"
  /\ UNCHANGED <<MnInputs, mnDateStr, mnHeader, mnTempHtml>>
  /\ UNCHANGED MnRest

\* lines 885-895: the meta block, the numbering flag, buildHtml
AssembleHtml ==
  /\ mnPc = "buildHtml"
  /\ \E found \in BOOLEAN :
       IF found THEN mnGo("saveHtml", {}) ELSE mnThrow("templateMissing")
  /\ MnFrame /\ UNCHANGED MnRest

\* lines 898-919: the html is saved, or written to a temporary file when it
\* is larger than 50 MB; then dateStr
SaveHtml ==
  /\ mnPc = "saveHtml"
  /\ \E ok \in BOOLEAN :
       IF mnSaveHtml \/ mnLarge
       THEN IF ok
            THEN /\ mnTempHtml' = IF mnSaveHtml THEN "saved" ELSE "temp"
                 /\ mnDateStr' = dateStrOf(mnDate, mnNow)
                 /\ mnGo("renderPDF", {})
            ELSE mnThrow("saveHtmlFailed") /\ UNCHANGED <<mnTempHtml, mnDateStr>>
       ELSE /\ ok
            /\ mnDateStr' = dateStrOf(mnDate, mnNow)
            /\ mnGo("renderPDF", {})
            /\ UNCHANGED mnTempHtml
  /\ UNCHANGED <<MnInputs, mnHeader, mnPrinted, mnExit>>
  /\ UNCHANGED MnRest

\* lines 930-937: await renderPDF, which puts dateStr into the header
RenderPdf ==
  /\ mnPc = "renderPDF"
  /\ mnHeader' = headerTemplate(mnDateStr)
  /\ \E r \in {"ok", "renderFault", "rejected"} :
       /\ mnEvents' = mnEvents \cup (CASE r = "ok" -> {}
                                       [] r = "renderFault" -> {"renderFault"}
                                       [] r = "rejected" -> {"rendererFailed"})
       /\ mnPc' = IF r = "rejected" THEN "unlinkThenCatch" ELSE "unlink"
  /\ UNCHANGED <<MnInputs, mnDateStr, mnTempHtml, mnPrinted, mnExit>>
  /\ UNCHANGED MnRest

\* lines 938-951: the finally block deletes the temporary html; a failure of
\* the unlink is a warning
UnlinkTempHtml ==
  /\ mnPc \in {"unlink", "unlinkThenCatch"}
  /\ \E ok \in BOOLEAN :
       /\ (mnTempHtml # "temp") => ok
       /\ mnEvents' = IF ok THEN mnEvents ELSE mnEvents \cup {"tempHtmlNotDeleted"}
  /\ mnPc' = IF mnPc = "unlink" THEN "finally" ELSE "catch"
  /\ MnFrame /\ UNCHANGED MnRest

\* lines 952-957: the catch block prints the message, the finally block sets
\* process.exitCode
CatchMain ==
  /\ mnPc = "catch"
  /\ mnPrinted' = TRUE
  /\ mnExit' = 1
  /\ mnPc' = "end"
  /\ UNCHANGED <<MnInputs, mnDateStr, mnHeader, mnTempHtml, mnEvents>>
  /\ UNCHANGED MnRest

\* lines 955-957 without an exception: let exitCode = 0
FinallyMain ==
  /\ mnPc = "finally"
  /\ mnExit' = 0
  /\ mnPc' = "end"
  /\ UNCHANGED <<MnInputs, mnDateStr, mnHeader, mnTempHtml, mnEvents, mnPrinted>>
  /\ UNCHANGED MnRest

NextMain ==
  \/ ParseArgs \/ MkOutDir \/ ReadSource \/ RenderMarkdown
  \/ ProcessImagesDone \/ ProcessImagesCrash \/ AssembleHtml \/ SaveHtml
  \/ RenderPdf \/ UnlinkTempHtml \/ CatchMain \/ FinallyMain

SpecMain == InitMain /\ [][NextMain]_vars

\* ------------------------------------------------------------------------
\* Properties of parseYamlFrontMatter (checked under SpecFM)
\* ------------------------------------------------------------------------
\* what the caller gets for metadata text M that yaml.load accepts
Parsed(M) == IF yamlLoad(M).kind = "undefined" THEN EmptyMap ELSE yamlLoad(M)
Malformed(M) == yamlLoad(M).kind = "throw"
\* M has a line that is itself a delimiter line: --- and trailing whitespace
HasDelimiterLine(M) ==
  LET ls == SplitLines(M)
  IN  \E i \in 1..Len(ls) : LineKind(ls[i]) = "marker"

\* C3: for T = "---\n" + M + "\n---\n" + B with M valid metadata the result
\* is (parsed(M), B) and the body equals B byte for byte, for every B.
C3_BodyByteIdentical ==
  (fmPc = "done" /\ fmBlock /\ ~Malformed(fmM))
    => (fmFrontMatter = Parsed(fmM) /\ fmBody = fmB)

\* C4 as stated: for T = "---\n" + M + "\n---\n" + B with M malformed as a
\* whole the result is (empty mapping, T), nothing of M is parsed, and a
\* warning is emitted.
C4_WholeBlockDiscarded ==
  (fmPc = "done" /\ fmBlock /\ Malformed(fmM))
    => (fmFrontMatter = EmptyMap /\ fmBody = fmContent /\ fmWarned)

\* C4 amended: the same, for every malformed M none of whose lines is itself
\* a delimiter line (the block ends at the first closing delimiter line).
C4_MalformedBlockDiscarded ==
  (fmPc = "done" /\ fmBlock /\ Malformed(fmM) /\ ~HasDelimiterLine(fmM))
    => (fmFrontMatter = EmptyMap /\ fmBody = fmContent /\ fmWarned)

C4_Witness ==
  /\ fmPc = "done" /\ fmBlock /\ Malformed(fmM) /\ ~HasDelimiterLine(fmM)
  /\ fmB # <<>> /\ fmWarned /\ fmBody = fmContent

\* C5: the returned front matter is always a mapping; a leading delimited
\* block whose content yields a value that is not a mapping (or no value
\* because it is malformed) gives the empty mapping and leaves the whole
\* text as the body.  (Empty content is read as the empty mapping.)
C5_FrontMatterIsMapping ==
  fmPc = "done" =>
    /\ fmFrontMatter.kind = "map"
    /\ LET match == yamlRegexMatch(fmContent)
       IN  (match.matched /\ yamlLoad(match.g1).kind \in {"scalar", "throw"})
             => (fmFrontMatter = EmptyMap /\ fmBody = fmContent)

\* ------------------------------------------------------------------------
\* Properties of the raster task (checked under SpecB64)
\* ------------------------------------------------------------------------
\* the registered media type of each supported raster extension
MediaType(ext) ==
  CASE ext = "png" -> "image/png"
    [] ext = "jpg" -> "image/jpeg"
    [] ext = "jpeg" -> "image/jpeg"
    [] ext = "gif" -> "image/gif"
    [] ext = "webp" -> "image/webp"

\* C6: the rewritten src of a supported raster file is a base64 data URL
\* whose media type matches the extension (jpg and jpeg both image/jpeg) and
\* whose payload decodes to exactly the bytes of the file.
C6_RasterRoundTrip ==
  b64Pc = "done" =>
    /\ b64Info.type = "base64"
    /\ b64Info.url.scheme = "data"
    /\ b64Info.url.enc = "base64"
    /\ b64Info.url.mime = MediaType(toLowerCase(b64Ext))
    /\ fromBase64(b64Info.url.payload) = b64Bytes

C6_Witness ==
  /\ b64Pc = "done"
  /\ b64Ext = "JPG"
  /\ Len(b64Bytes) = 4
  /\ b64Info.url.mime = "image/jpeg"
  /\ Len(b64Info.url.payload) = 8

\* ------------------------------------------------------------------------
\* Properties of the inline-svg substitution (checked under SpecSvg)
\* ------------------------------------------------------------------------
\* the values the img element gives explicitly to the attribute `word`
ExplicitValues(attrs, word) ==
  {attrs[i].value : i \in {j \in 1..Len(attrs) :
      /\ Len(attrs[j].name) = 1
      /\ lowerWord(attrs[j].name[1]) = word
      /\ attrs[j].value # ""}}
\* the root element defines an attribute of exactly this name
RootDefines(root, word) ==
  \E i \in 1..Len(root) : Len(root[i].name) = 1 /\ lowerWord(root[i].name[1]) = word
RootValues(root, word) ==
  {root[i].value : i \in {j \in 1..Len(root) :
      Len(root[j].name) = 1 /\ lowerWord(root[j].name[1]) = word}}

\* C9: an explicit width, height or alt of the img element is not dropped:
\* width and height appear on the spliced root, alt appears as its title,
\* whenever the root of the file does not define an attribute of that exact
\* name (for alt: the file has no title), whatever else the root carries.
C9_SizeAndAltKept ==
  svgPc = "done" =>
    LET img == svgBefore \o svgAfter
    IN  /\ \A word \in {"width", "height"} :
             (ExplicitValues(img, word) # {} /\ ~RootDefines(svgFile.root, word))
               => RootValues(svgOut.root, word) \cap ExplicitValues(img, word) # {}
        /\ (ExplicitValues(img, "alt") # {} /\ ~svgFile.hasTitle)
               => (svgOut.title # <<>> /\ svgOut.title[1] \in ExplicitValues(img, "alt"))

\* C10: after splicing, the root svg element carries no attribute name more
\* than once.
C10_NoDuplicateAttribute ==
  svgPc = "done" => DistinctNames(svgOut.root)

\* ------------------------------------------------------------------------
\* Properties of processImages (checked under Spec)
\* ------------------------------------------------------------------------
srcAt(i) == html[i].src.path
Untouched(i) == result[i] = <<html[i]>>
Missing(s) == ~isRemote(s) /\ (~Files[s].exists \/ ~Files[s].isFile)
Resolvable(s) ==
  /\ ~isRemote(s) /\ Files[s].exists /\ Files[s].isFile
  /\ extOf(Files[s].rawExt) \in supportedExts
Aborted == pc \in {"rejected", "crashed"}

\* C1: an img element whose local src does not exist or is not a regular
\* file never makes processImages reject; in the output it stands unchanged,
\* a warning names it, and every other image of the fragment that can be
\* resolved has been rewritten.
C1_MissingAssetLeftAlone ==
  \A i \in 1..Len(html) :
    Missing(srcAt(i)) =>
      /\ ~Aborted
      /\ pc = "done" =>
           /\ Untouched(i)
           /\ Log("notFound", srcAt(i)) \in log
           /\ \A j \in 1..Len(html) : Resolvable(srcAt(j)) => ~Untouched(j)

\* C2: a rejection inside the task of one asset (a read of the file, or the
\* stat or read of the converted svg) is a per-item failure: processImages
\* does not reject, main does not abort, and in the output the reference of
\* that asset stands unchanged with a warning logged for it.
C2_TaskFailureIsPerItem ==
  \A t \in 1..Len(tasks) :
    Rejected(t) =>
      /\ ~Aborted
      /\ mainPc \notin {"catch", "crashed"} /\ exitCode = 0
      /\ pc = "done" =>
           /\ \A i \in 1..Len(html) : srcAt(i) = tasks[t].src => Untouched(i)
           /\ \E e \in log : e.src = tasks[t].src

C8_VectorSizePolicy ==
  (pc = "done" /\ embedBase64) =>
    \A i \in 1..Len(html) :
      LET s == srcAt(i)
          f == Files[s]
      IN  (/\ ~isRemote(s) /\ f.exists /\ f.isFile
           /\ extOf(f.rawExt) \in {"svg", "pdf"}
           /\ imageMap[s].type \notin {"null", "deleted"})
          => IF f.size < SvgInlineLimit
             THEN result[i] # <<>> /\ result[i][1].kind = "svg"
             ELSE result[i] =
                    <<rewrittenImg(html[i], DataUrl("image/svg+xml", toBase64(f.bytes)))>>

\* a local pdf whose conversion cannot be started, fails, or writes nothing
ConvFails(s) ==
  /\ ~isRemote(s) /\ Files[s].exists /\ Files[s].isFile
  /\ extOf(Files[s].rawExt) = "pdf"
  /\ Files[s].conv \in {"enoent", "fail", "nooutput"}

\* C11: with embed mode on, a local pdf whose conversion cannot be started,
\* exits with a failure or produces no output file does not stop
\* processImages: its reference stands unchanged in the output, a warning is
\* logged for it (with the install hint when the command is missing), and
\* the other assets of the fragment are resolved.
C11_ConversionFailureIsPerItem ==
  embedBase64 =>
    \A i \in 1..Len(html) :
      ConvFails(srcAt(i)) =>
        /\ ~Aborted
        /\ pc = "done" =>
             /\ Untouched(i)
             /\ \E e \in log : e.src = srcAt(i)
             /\ Files[srcAt(i)].conv = "enoent" => Log("installHint", srcAt(i)) \in log
             /\ \A j \in 1..Len(html) : Resolvable(srcAt(j)) => ~Untouched(j)

\* C12: when processImages terminates, by returning or by rejecting, no
\* file written by a pdf conversion is left in the temporary directory.
C12_TempFilesDeleted ==
  (pc \in {"done", "rejected", "crashed"}) => tmpFs = {}

\* the resolution of one src, as a function of the fragment's inputs only
mkdirOk == Log("mkdirFailed", "") \notin log
expectedInfo(s) ==
  LET f == Files[s]
      ext == extOf(f.rawExt)
      fileInfo == ImageInfo("file", FileUrl(absPathOf(s)), NoSvg)
      vector == IF f.size > SvgInlineLimit
                THEN svgBase64Info(f.bytes)
                ELSE ImageInfo("svg", NoUrl, f.svg)
  IN  IF isRemote(s) \/ ~f.exists \/ ~f.isFile THEN Null
      ELSE IF ext = "pdf"
      THEN (IF ~embedBase64 THEN fileInfo
            ELSE IF f.conv = "ok" /\ mkdirOk THEN vector
            ELSE Null)
      ELSE IF ext \notin supportedExts THEN Null
      ELSE IF ext = "svg"
      THEN (IF f.size > SvgInlineLimit /\ ~embedBase64 THEN fileInfo ELSE vector)
      ELSE IF embedBase64 THEN rasterInfo(ext, f.bytes)
      ELSE fileInfo
\* the substitution pass over the fragment with those resolutions
RECURSIVE expectedFrom(_, _)
expectedFrom(res, k) ==
  IF k > Len(html) THEN res
  ELSE expectedFrom(substituteOne(res, html[k], expectedInfo(srcAt(k))), k + 1)
expectedResult == expectedFrom([i \in 1..Len(html) |-> <<html[i]>>], 1)

\* C13: the fragment returned by processImages is a function of the
\* fragment, the flag and the files: every order in which the tasks
\* complete gives the same result.
C13_ResultIndependentOfOrder ==
  pc = "done" => result = expectedResult


\* the original img element with only the value of its src replaced
withSrc(e, url) == [e EXCEPT !.src = url]

\* C24: for every image that processImages resolves to a data reference or
\* a local-file reference, the substituted element is the original img
\* element with only the value of its src attribute replaced: the tag name,
\* the whitespace after it and every other attribute are unchanged.
C24_OnlySrcReplaced ==
  pc = "done" =>
    \A i \in 1..Len(html) :
      imageMap[srcAt(i)].type \in {"base64", "file"} =>
        result[i] = <<withSrc(html[i], imageMap[srcAt(i)].url)>>

InSubstitution == pc \in {"subst", "unlink", "done"}
Settled(t) == t.st \in {"ok", "rejected"}

\* C28: the substitution pass starts only after every resolution task has
\* settled: once substitution or cleanup has begun no task is pending and
\* no step writes the lookup or the temp-file list.
C28_SubstitutionAfterTasksSettle ==
  [][InSubstitution =>
       /\ \A i \in 1..Len(tasks) : Settled(tasks[i])
       /\ imageMap' = imageMap /\ tempFiles' = tempFiles /\ tasks' = tasks]_vars

C28_Witness ==
  /\ pc = "unlink" /\ Len(tasks) = 2 /\ Len(tempFiles) = 1
  /\ \E i \in 1..2 : tasks[i].kind = "raster"

taskCount(ts, s) == Cardinality({i \in 1..Len(ts) : ts[i].src = s})

\* C27: each distinct src gets at most one resolution task, and its lookup
\* entry is written at most once, by that task or synchronously by the
\* iteration of the loop for that src; no task writes the entry of another
\* src.
C27_OneResolutionPerSrc ==
  [][\A s \in Srcs :
       /\ taskCount(tasks', s) <= 1
       /\ imageMap'[s] # imageMap[s] =>
            /\ imageMap[s] = Null
            /\ \/ \E i \in 1..Len(tasks) : tasks[i].src = s /\ tasks'[i].st # tasks[i].st
               \/ pc = "stat" /\ cur = s /\ taskCount(tasks', s) = 0]_vars

C27_Witness ==
  /\ pc = "subst" /\ Len(html) = 2 /\ srcAt(1) = srcAt(2)
  /\ Len(tasks) = 1 /\ imageMap[srcAt(1)].type = "base64"

\* what the conversion of the pdf s itself gives
ownConversion(s) ==
  IF Files[s].size > SvgInlineLimit THEN svgBase64Info(Files[s].bytes)
  ELSE ImageInfo("svg", NoUrl, Files[s].svg)

\* C29: two concurrent pdf conversions for distinct src never share a
\* temporary svg path, also when the two pdfs have the same base name and
\* start within the same millisecond, so the content stored for a pdf
\* reference is always the conversion of that reference's own pdf.
C29_ConversionsShareNoPath ==
  /\ \A i, j \in 1..Len(tasks) :
       (i # j /\ tasks[i].kind = "pdf" /\ tasks[j].kind = "pdf") =>
         tasks[i].path # tasks[j].path
  /\ \A i \in 1..Len(tasks) :
       (tasks[i].kind = "pdf" /\ imageMap[tasks[i].src].type \in {"svg", "base64"}) =>
         imageMap[tasks[i].src] = ownConversion(tasks[i].src)

\* the text that stands for the i-th occurrence when it alone is rewritten,
\* with the resolution of its src
consumedOnce(i) == substituteOne(<<<<html[i]>>>>, html[i], imageMap[srcAt(i)])[1]

\* C26: in the substitution pass each img occurrence found by the scan is
\* consumed exactly once: every occurrence is rewritten with the resolution
\* of its src (the same for all occurrences of that src), and the text put
\* in by one substitution is not modified by a later one.
C26_OccurrencesConsumedOnce ==
  pc \in {"unlink", "done"} =>
    \A i \in 1..Len(html) : result[i] = consumedOnce(i)
\* ------------------------------------------------------------------------
\* Properties of the metadata block (checked under SpecMeta)
\* ------------------------------------------------------------------------
\* a field the front matter has: defined with a non-empty text
HasField(v) == v.def /\ v.text # <<>>
FieldDiv(class, label, v) ==
  IF HasField(v) THEN <<"<div class=" \o class \o ">">> \o label \o v.text \o <<"</div>">>
  ELSE <<>>
\* the block of the fields present, in the order identifier, author, affiliation
MetaBlock(fm) ==
  <<"<div class=document-meta>">>
    \o FieldDiv("meta-student-id", <<"ID: ">>, fm.student_id)
    \o FieldDiv("meta-author", <<>>, fm.author)
    \o FieldDiv("meta-affiliation", <<>>, fm.affiliation)
    \o <<"</div>">>
\* the closing tag of the first h1 element of a fragment, 0 when it has none
FirstH1End(frag) ==
  LET opens == {i \in 1..Len(frag) : frag[i] = "<h1>"}
      closes == IF opens = {} THEN {}
                ELSE {j \in 1..Len(frag) : j > Min(opens) /\ frag[j] = "</h1>"}
  IN  IF closes = {} THEN 0 ELSE Min(closes)

\* C14: with none of student_id, author, affiliation the fragment comes back
\* unchanged; otherwise the block of the present fields, in the order
\* identifier, author, affiliation, stands once, right after the closing tag
\* of the first h1 element, and a fragment without h1 comes back unchanged.
C14_MetaBlockAfterFirstH1 ==
  metaPc = "done" =>
    LET fm == metaFrontMatter
        e == FirstH1End(metaHtml)
    IN  IF ~HasField(fm.student_id) /\ ~HasField(fm.author) /\ ~HasField(fm.affiliation)
        THEN metaOut = metaHtml
        ELSE IF e = 0 THEN metaOut = metaHtml
        ELSE metaOut = SubSeq(metaHtml, 1, e) \o MetaBlock(fm)
                         \o SubSeq(metaHtml, e + 1, Len(metaHtml))

\* ------------------------------------------------------------------------
\* Properties of the assembly of the document (checked under SpecBh)
\* ------------------------------------------------------------------------
Contains(text, token) == \E i \in 1..Len(text) : text[i] = token

\* the effective numbering flag
EffectiveFlag ==
  IF bhAuto = Bool(FALSE) \/ bhAuto = Str("false") THEN FALSE
  ELSE IF bhAuto # Absent THEN TRUE
  ELSE bhEnv # Str("0")

\* C15: the assembled document holds the heading-numbering rules exactly
\* when the effective flag is true: false for auto_number false or "false",
\* true for every other defined auto_number, and without auto_number the
\* default of MD2HTML_AUTO_NUMBER, which is off only for "0".
C15_NumberingFollowsFlag ==
  (bhPc \in {"render", "end"} /\ ~bhThrew) =>
    (Contains(bhHtml, HeadingRules) <=> EffectiveFlag)

C15_Witness ==
  /\ bhPc = "end" /\ ~bhThrew /\ bhPdf
  /\ bhAuto = Str("false") /\ bhEnv = Absent
  /\ ~Contains(bhHtml, HeadingRules)

\* a template file is found at a location
TemplateFound(t) == t \in {"empty", "ok"}

\* C16: buildHtml raises its configuration error exactly when no template
\* is found in the working directory nor in the script directory; main then
\* ends with a failure, without calling the renderer and without a PDF.
C16_ErrorIffNoTemplate ==
  bhPc # "off" /\ bhPc # "buildHtml" =>
    /\ bhThrew <=> (~TemplateFound(bhCwd) /\ ~TemplateFound(bhScript))
    /\ bhThrew => (~bhRendered /\ ~bhPdf /\ (bhPc = "end" => bhExit = 1))


\* the template with each of its own placeholders filled in verbatim
RECURSIVE fillVerbatim(_, _, _, _)
fillVerbatim(tmpl, css, title, body) ==
  IF tmpl = <<>> THEN <<>>
  ELSE LET t == Head(tmpl)
           k == {i \in 1..Len(CfgPlaceholders) : CfgPlaceholders[i] = t}
       IN  (CASE t = "/*{{HEADING_NUMBER_CSS}}*/" -> css
              [] t = "{{TITLE}}" -> title
              [] t = "{{BODY}}" -> body
              [] k # {} -> <<CfgDefaults[CHOOSE i \in k : TRUE]>>
              [] OTHER -> <<t>>)
           \o fillVerbatim(Tail(tmpl), css, title, body)

\* C25: buildHtml places the body and the title into the template verbatim,
\* for every body, also one that holds "$$", "$&" or the text {{FONT_SIZE}};
\* configuration values replace only the placeholders of the template.
C25_BodyInsertedVerbatim ==
  (bhPc \in {"render", "end"} /\ ~bhThrew) =>
    bhHtml = fillVerbatim(loadTemplate(bhCwd, bhScript),
                          buildHeadingNumberCSS(EffectiveFlag), bhTitle, bhBody)
\* ------------------------------------------------------------------------
\* Properties of the rendering of a fenced block (checked under SpecFence)
\* ------------------------------------------------------------------------
\* the info string, trimmed and lower-cased, is "mermaid"
DiagramTagged(info) ==
  \E i \in 1..Len(info) :
    /\ info[i] \in {"mermaid", "MERMAID", "Mermaid"}
    /\ \A j \in 1..Len(info) : j # i => info[j] = SP

\* C17: a fenced block whose info string, trimmed and lower-cased, is
\* "mermaid" is rendered as a container of class mermaid holding the content
\* character for character, unescaped, without a call of the highlighter;
\* for every other fenced block the highlighter is called.
C17_MermaidNotHighlighted ==
  fcPc \in {"rendered", "catch", "end"} =>
    IF DiagramTagged(fcInfo)
    THEN /\ fcOut = <<"<div class=mermaid>">> \o fcContent \o <<"</div>">>
         /\ fcCalls = 0
         /\ ~fcThrew
    ELSE fcCalls = 1

C17_Witness ==
  /\ fcPc = "end"
  /\ fcInfo = <<SP, "MERMAID">>
  /\ fcContent = <<"A", "-->">>
  /\ fcHljs = "throws"
  /\ fcOut = <<"<div class=mermaid>", "A", "-->", "</div>">>

\* C18: when the highlighter throws for a fenced block, the rendering still
\* completes, the block is emitted as escaped code without highlighting,
\* and main does not end with a failure.
C18_HighlightFailureFallsBack ==
  (fcHljs = "throws" /\ ~DiagramTagged(fcInfo) /\ fcPc \in {"rendered", "catch", "end"}) =>
    /\ ~fcThrew
    /\ fcExit = 0
    /\ \E i \in 1..Len(fcOut) - Len(fcContent) + 1 :
         SubSeq(fcOut, i, i + Len(fcContent) - 1) = escapeHtml(fcContent)

\* ------------------------------------------------------------------------
\* Properties of renderPDF (checked under SpecRp)
\* ------------------------------------------------------------------------
\* C19: when the page closes before or during a wait point, renderPDF
\* rejects with the page-closed error: it never resolves after the page
\* closed before the export was complete, and page.pdf is never called on a
\* page known to be closed.
C19_PageClosedIsReported ==
  /\ rpClosed => rpOutcome # "resolved"
  /\ (rpClosed /\ rpOutcome # "pending") => (rpOutcome = "rejected" /\ rpErr = "closed")
  /\ ~rpPdfClosed

C19_Witness ==
  /\ rpOutcome = "rejected" /\ rpErr = "closed" /\ rpClosed
  /\ rpPdfCalls = 1 /\ ~rpPdfDone
  /\ "imageWait" \in rpLog

\* C20: a fault of the image wait or of the typesetting step with the page
\* open is logged as a warning and does not stop the sequence: unless the
\* page closes later, page.pdf is called after it.
C20_RenderFaultsAreWarnings ==
  \A step \in rpFaults :
    /\ step \in rpLog
    /\ (~rpClosed /\ rpPc \in {"pdf", "finally", "browserClose", "end"}) => rpPdfCalls = 1

C20_Witness ==
  /\ rpOutcome = "resolved" /\ rpPdfDone
  /\ rpFaults = {"imageWait", "typeset"}


\* C21: every wait point of renderPDF is bounded, so renderPDF always
\* terminates, with success or with a reported failure, even when the
\* typesetting of the page never completes (checked under SpecRpFair).
\* A time limit that ran out is never turned into a success.
C21_RenderAlwaysTerminates ==
  /\ <>(rpOutcome # "pending")
  /\ [](rpTimeouts # {} => rpOutcome # "resolved")


\* C30: on every path through renderPDF after the browser was launched,
\* closing the browser is attempted before renderPDF settles, and an error
\* raised while closing the page or the browser never replaces the
\* original outcome: renderPDF resolves exactly when the export was
\* written, and rejects with the error thrown inside the try block.
C30_BrowserClosedOnEveryPath ==
  (rpOutcome # "pending" /\ rpErr # "launch") =>
    /\ rpCleanup \cap {"browser.close", "browser.close failed"} # {}
    /\ rpOutcome = "resolved" <=> (rpPdfDone /\ rpErr = "none")
    /\ rpOutcome = "rejected" <=> (~rpPdfDone /\ rpErr \in {"closed", "other"})

C30_Witness ==
  /\ rpOutcome = "rejected" /\ rpErr = "other" /\ rpTimeouts = {"domWait"}
  /\ rpCleanup = {"page.close failed", "browser.close failed"}

\* C30, second case: the export succeeded and both closes failed
C30_WitnessSuccess ==
  /\ rpOutcome = "resolved" /\ rpPdfDone
  /\ rpCleanup = {"page.close failed", "browser.close failed"}
\* ------------------------------------------------------------------------
\* Properties of main (checked under SpecMain)
\* ------------------------------------------------------------------------
\* the failures that end the pipeline
FatalEvents ==
  {"badArguments", "mkdirFailed", "sourceUnreadable", "templateMissing",
   "saveHtmlFailed", "rendererFailed"}

\* the per-item events: each concerns one asset, one code block, one step
PerItemEvents ==
  {"yamlInvalid", "assetMissing", "conversionFailed", "assetUnreadable",
   "highlightFailed", "renderFault", "tempHtmlNotDeleted"}

\* C22: main ends with a non-zero exit code and a printed error message
\* exactly when a failure propagated out of the pipeline (bad arguments,
\* unreadable source file, missing template, renderer failure); on every run
\* in which only per-item events occurred the exit code is 0.
C22_ExitCodeFollowsFailures ==
  mnPc = "end" =>
    /\ mnExit \in {0, 1}
    /\ (mnExit # 0 /\ mnPrinted) <=> (mnEvents \cap FatalEvents # {})
    /\ (mnEvents \subseteq PerItemEvents) => mnExit = 0

\* the front matter holds a date, and it parses
dateParses(v) == v.type \in {"string", "date"} /\ v.val # "" /\ newDate(v).valid

\* C23: the date label handed to the renderer for the running header is
\* the locale rendering of the front matter date when that is present and
\* parses as a date, and the current date both when date is absent and when
\* it is present but fails to parse.
C23_DateLabel ==
  mnHeader # <<>> =>
    /\ mnHeader = headerTemplate(mnDateStr)
    /\ mnDateStr = IF dateParses(mnDate) THEN toLocaleDateString(newDate(mnDate))
                   ELSE toLocaleDateString(mnNow)
====
